---- MODULE Spec2Model ----
(***************************************************************************)
(* Argus-Vision: the task lifecycle (App), the sample curation drawer      *)
(* (TaskDrawer) and the scheduled callbacks that tie them together.        *)
(*                                                                         *)
(* App keeps the task list, the wizard flag and the task whose fine-tuning *)
(* drawer is open.  TaskDrawer keeps the sample labels and the isTraining  *)
(* flag of one drawer session.  Two kinds of setTimeout callbacks are in   *)
(* flight: the provisioning callback of handleCreateTask (2000 ms) and the *)
(* training-start callback of handleStartTraining (1000 ms).               *)
(*                                                                         *)
(* TaskWizard keeps the camera selection and the annotation canvas: the    *)
(* committed drawElements, the stroke in progress (currentDrawing,         *)
(* isDrawing) and the draw mode.                                           *)
(***************************************************************************)
EXTENDS Integers, Sequences, FiniteSets, TLC

VARIABLES
    tasks,          \* App: useState<Task[]>(MOCK_TASKS), first element on top
    isWizardOpen,   \* App: useState(false)
    drawer,         \* App.fineTuningTask together with the mounted TaskDrawer's state
    timers,         \* pending setTimeout callbacks, in the order they were scheduled
    nextId,         \* number of the next task the wizard creates (Date.now() is fresh)
    selectedCameras, \* TaskWizard: useState<string[]>([])
    activeCameraId, \* TaskWizard: useState<string | null>(null)
    drawElements,   \* TaskWizard: useState<DrawElement[]>([])
    currentDrawing, \* TaskWizard: useState<Coordinate[]>([])
    drawMode,       \* TaskWizard: useState<DrawMode>('line')
    isDrawing,      \* TaskWizard: useState(false)
    gesture,        \* history: what the pointer has reported since the last mouse-down
    selectedAlgoId, \* TaskWizard: useState<string | null>(null)
    enableAiCustom, \* TaskWizard: useState(false)
    genAiInput,     \* TaskWizard: useState('')
    genAiResult,    \* TaskWizard: useState<ParsedRule | null>(null)
    isParsing,      \* TaskWizard: useState(false)
    genAiError,     \* TaskWizard: useState<string | null>(null)
    taskName,       \* TaskWizard: useState('')
    duration,       \* TaskWizard: useState(0)
    alarmLevel,     \* TaskWizard: useState<AlarmLevel>(AlarmLevel.HIGH)
    positiveThreshold, \* TaskWizard: useState(30)
    negativeThreshold, \* TaskWizard: useState(30)
    parseCall,      \* the parseRuleDescription promise handleParse awaits, if any
    onSaveCalls     \* history: the drafts handed to onSave (App.handleCreateTask)

appVars == <<tasks, isWizardOpen, drawer, timers, nextId>>

wizardVars == <<selectedCameras, activeCameraId, drawElements, currentDrawing,
                drawMode, isDrawing, gesture>>

formVars == <<selectedAlgoId, enableAiCustom, genAiInput, genAiResult, isParsing,
              genAiError, taskName, duration, alarmLevel, positiveThreshold,
              negativeThreshold, parseCall>>

vars == <<tasks, isWizardOpen, drawer, timers, nextId,
          selectedCameras, activeCameraId, drawElements, currentDrawing,
          drawMode, isDrawing, gesture,
          selectedAlgoId, enableAiCustom, genAiInput, genAiResult, isParsing,
          genAiError, taskName, duration, alarmLevel, positiveThreshold,
          negativeThreshold, parseCall, onSaveCalls>>

(***************************** bounds **************************************)
\* Tasks the wizard may create in one run.
MaxCreated == 1
\* Samples of one drawer session (generateMockSamples(50) in the code).
NumSamples == 2
\* Largest threshold the wizard's inputs are drawn from (any integer >= 1 in the code).
MaxThreshold == 1
\* Training-start callbacks that may be pending at once.
MaxTimers == 1
\* Samples of the drawer session in which the gate is checked on every labeling.
GateSamples == 5
\* Largest threshold of the task whose gate is checked on every labeling.
GateMaxThreshold == 3
\* Samples of the drawer session in which the tuning status is checked.
IndicatorSamples == 200
\* Smallest and largest positive threshold of the task whose tuning status is
\* checked (any integer >= 1 in the code).
IndicatorMinThreshold == 196
IndicatorMaxThreshold == 200
\* Largest negative threshold of the task whose tuning status is checked.
IndicatorNegThreshold == 1
\* Points the canvas may hold at once: committed ones plus the reported ones of
\* the gesture in progress.
MaxPointsHeld == 4

(***************************** enums ***************************************)
TaskStatus == {"INIT", "RUNNING", "STOPPED", "TRAINING", "ERROR"}

LabelStatus == {"UNLABELED", "POSITIVE", "NEGATIVE", "IGNORED"}

\* The labels the three hover buttons of a sample card pass to handleLabel.
LabelButtons == {"POSITIVE", "NEGATIVE", "IGNORED"}

NoDrawer == [open |-> FALSE]

Max(a, b) == IF a >= b THEN a ELSE b

\* A threshold of the mock tasks, in proportion to the bounded sample count:
\* the code holds 50 samples per drawer.
ScaleToSamples(n) == Max(1, (n * NumSamples) \div 50)

MOCK_TASKS ==
    << [id |-> 1, status |-> "RUNNING", total |-> 45,
        positive_threshold |-> ScaleToSamples(20),
        negative_threshold |-> ScaleToSamples(10)],
       [id |-> 2, status |-> "STOPPED", total |-> 12,
        positive_threshold |-> ScaleToSamples(20),
        negative_threshold |-> ScaleToSamples(10)] >>

\* Ids of the tasks the wizard creates follow the two mock tasks.
FirstCreatedId == Len(MOCK_TASKS) + 1

TaskIds == 1 .. (Len(MOCK_TASKS) + MaxCreated)

(************************ pure list helpers ********************************)
RECURSIVE MapSeq(_, _)
MapSeq(F(_), s) == IF s = <<>> THEN <<>> ELSE <<F(Head(s))>> \o MapSeq(F, Tail(s))

RECURSIVE FilterSeq(_, _)
FilterSeq(P(_), s) ==
    IF s = <<>> THEN <<>>
    ELSE (IF P(Head(s)) THEN <<Head(s)>> ELSE <<>>) \o FilterSeq(P, Tail(s))

IdsOf(ts) == {ts[i].id : i \in DOMAIN ts}

TaskOf(ts, id) == CHOOSE t \in {ts[i] : i \in DOMAIN ts} : t.id = id

(************************ App: task list updates ***************************)
\* A status update that also resets the observed total.
updateTaskStatusResetsTotal(ts, id, status) ==
    LET F(t) == IF t.id = id THEN [t EXCEPT !.status = status, !.total = 0] ELSE t
    IN  MapSeq(F, ts)

\* A status update that lists the task again when it is no longer listed.
updateTaskStatusUpsert(ts, id, status) ==
    LET F(t) == IF t.id = id THEN [t EXCEPT !.status = status] ELSE t
    IN  IF id \in IdsOf(ts) THEN MapSeq(F, ts)
        ELSE Append(ts, [id |-> id, status |-> status, total |-> 0,
                         positive_threshold |-> 1, negative_threshold |-> 1])

\* prev.map(t => t.id === id ? { ...t, status } : t)
updateTaskStatus(ts, id, status) ==
    LET F(t) == IF t.id = id THEN [t EXCEPT !.status = status] ELSE t
    IN  MapSeq(F, ts)

\* A sample-total update that writes the total of every task.
updateTaskSampleCountEveryTask(ts, id, count) ==
    LET F(t) == [t EXCEPT !.total = count]
    IN  MapSeq(F, ts)

\* prev.map(t => t.id === id ? { ...t, sample_count: { ...t.sample_count, total: count } } : t)
updateTaskSampleCount(ts, id, count) ==
    LET F(t) == IF t.id = id THEN [t EXCEPT !.total = count] ELSE t
    IN  MapSeq(F, ts)

\* prev.filter(t => t.id !== id)
deleteTask(ts, id) ==
    LET P(t) == t.id # id
    IN  FilterSeq(P, ts)

\* A provisioning callback that reports a failure.
provisioningCallbackFails(ts, id) ==
    LET F(t) == IF t.id = id THEN [t EXCEPT !.status = "ERROR"] ELSE t
    IN  MapSeq(F, ts)

\* A provisioning callback that never writes.
provisioningCallbackLost(ts, id) == ts

\* The callback of handleCreateTask's setTimeout.
provisioningCallback(ts, id) == updateTaskStatus(ts, id, "RUNNING")

\* A task built with the two thresholds of the draft exchanged.
newTaskThresholdsSwapped(id, partial) ==
    [id |-> id, status |-> "INIT", total |-> partial.total,
     positive_threshold |-> partial.negative_threshold,
     negative_threshold |-> partial.positive_threshold]

\* The task handleCreateTask builds from the wizard's draft.
newTask(id, partial) ==
    [id |-> id, status |-> "INIT", total |-> partial.total,
     positive_threshold |-> partial.positive_threshold,
     negative_threshold |-> partial.negative_threshold]

(************************ TaskDrawer: sample curation **********************)
generateMockSamples(count) == [i \in 1 .. count |-> "UNLABELED"]

\* samples.filter(s => s.label === label).length
CountLabel(samples, label) ==
    Cardinality({i \in DOMAIN samples : samples[i] = label})

\* Counts that take an ignored sample for an unlabeled one.
statsIgnoredAsUnlabeled(samples) ==
    [unlabeled |-> CountLabel(samples, "UNLABELED") + CountLabel(samples, "IGNORED"),
     positive  |-> CountLabel(samples, "POSITIVE"),
     negative  |-> CountLabel(samples, "NEGATIVE")]

stats(samples) ==
    [unlabeled |-> CountLabel(samples, "UNLABELED"),
     positive  |-> CountLabel(samples, "POSITIVE"),
     negative  |-> CountLabel(samples, "NEGATIVE")]

\* The single-threshold gate of the earlier drawer: one combined total.
canTrainCombined(samples, posThreshold, negThreshold) ==
    stats(samples).positive + stats(samples).negative
        >= posThreshold + negThreshold

canTrain(samples, posThreshold, negThreshold) ==
    /\ stats(samples).positive >= posThreshold
    /\ stats(samples).negative >= negThreshold

\* A label update that hits the sample after the one asked for (ids taken as
\* zero-based positions).
labelSampleOffByOne(samples, id, label) ==
    [i \in DOMAIN samples |->
        IF i = (id % Len(samples)) + 1 THEN label ELSE samples[i]]

\* A label update that deletes the sample it is asked to ignore.
labelSampleDropIgnored(samples, id, label) ==
    IF label = "IGNORED"
    THEN SubSeq(samples, 1, id - 1) \o SubSeq(samples, id + 1, Len(samples))
    ELSE [i \in DOMAIN samples |-> IF i = id THEN label ELSE samples[i]]

\* prev.map(s => s.id === id ? { ...s, label } : s)
labelSample(samples, id, label) ==
    [i \in DOMAIN samples |-> IF i = id THEN label ELSE samples[i]]

\* A start button that stays enabled after a confirmed start.
startButtonEnabledWhileTraining(d) ==
    canTrain(d.samples, d.positive_threshold, d.negative_threshold)

\* A start button that is disabled only while isTraining.
startButtonEnabledWithoutGate(d) == ~d.isTraining

\* The start button of the drawer: disabled={!canTrain || isTraining}.
startButtonEnabled(d) ==
    /\ canTrain(d.samples, d.positive_threshold, d.negative_threshold)
    /\ ~d.isTraining

Min(a, b) == IF a <= b THEN a ELSE b

\* Math.round of the quotient num / den (num >= 0, den >= 1): the nearest
\* integer, a tie going up.
round(num, den) == (2 * num + den) \div (2 * den)

\* Math.min(100, Math.round((stats.positive / positiveThreshold) * 100))
positiveProgress(d) ==
    Min(100, round(stats(d.samples).positive * 100, d.positive_threshold))

\* Math.min(100, Math.round((stats.negative / negativeThreshold) * 100))
negativeProgress(d) ==
    Min(100, round(stats(d.samples).negative * 100, d.negative_threshold))

\* The tuning-status lines of the drawer: the check mark of a class is
\* rendered when its progress is at least 100, the shortfall otherwise.
positiveMet(d) == positiveProgress(d) >= 100

negativeMet(d) == negativeProgress(d) >= 100

(************************ task row buttons *********************************)
\* Both overlays cover the whole viewport (fixed inset-0), so the task rows
\* take pointer input only while neither is open.
NoOverlay == ~isWizardOpen /\ ~drawer.open

\* Fine-tune button: disabled={task.status === TaskStatus.TRAINING}.
fineTuneButtonEnabled(t) == t.status # "TRAINING"

\* A row that offers the stop button for every task that is not stopped.
showsStopButtonUnlessStopped(t) == t.status # "STOPPED"

\* The row shows the stop button when the task is RUNNING, else the start button.
showsStopButton(t) == t.status = "RUNNING"

(************************ timers *******************************************)
unmountAll(tm) == [i \in DOMAIN tm |-> [tm[i] EXCEPT !.mounted = FALSE]]

RemoveAt(s, i) == SubSeq(s, 1, i - 1) \o SubSeq(s, i + 1, Len(s))

PendingTraining(tm) == {i \in DOMAIN tm : tm[i].kind = "training"}

\* Timers of one delay fire in the order they were scheduled; a training-start
\* callback (1000 ms) scheduled before a provisioning callback (2000 ms) fires
\* before it.  Any other order depends on when the user acted.
MayFire(tm, i) ==
    \A j \in 1 .. (i - 1) :
        /\ tm[j].kind # tm[i].kind
        /\ ~(tm[j].kind = "training" /\ tm[i].kind = "provision")

(************************ TaskWizard: annotation canvas *********************)
DrawMode == {"line", "curve", "polygon", "arrow"}

\* The first two of MOCK_CAMERAS, which App hands to the wizard.
Cameras == {"cam1", "cam2"}

null == "null"

\* What [][0] yields in JavaScript.
undefined == [undefined |-> TRUE]

\* getBoundingClientRect() of the canvas element, in pixels.
canvasRect == [left |-> 2, top |-> 1, width |-> 2, height |-> 2]

\* Positions a mouse event on the canvas reports.  The canvas box has
\* fractional edges while clientX/clientY are whole pixels, so an event at the
\* edge can report a position just outside the rectangle; the other position
\* is the middle of the canvas.
PointerPositions ==
    {[clientX |-> canvasRect.left - 1, clientY |-> canvasRect.top - 1],
     [clientX |-> canvasRect.left + 1, clientY |-> canvasRect.top + 1]}

\* (clientX - rect.left) / rect.width and (clientY - rect.top) / rect.height,
\* kept in hundredths (the overlay's viewBox units) so that they stay integers.
getCanvasCoords(e) ==
    [x |-> ((e.clientX - canvasRect.left) * 100) \div canvasRect.width,
     y |-> ((e.clientY - canvasRect.top) * 100) \div canvasRect.height]

\* A point of the unit square, in hundredths.
InUnitSquare(p) == p.x >= 0 /\ p.x <= 100 /\ p.y >= 0 /\ p.y <= 100

IsSegmentMode(mode) == mode = "line" \/ mode = "arrow"

\* An extend that appends in every draw mode.
extendDrawingAppendAlways(prev, mode, coord) == Append(prev, coord)

\* The updater of handleMouseMove: [prev[0], coord] for line and arrow,
\* [...prev, coord] for curve and polygon.
extendDrawing(prev, mode, coord) ==
    IF IsSegmentMode(mode)
    THEN <<(IF prev = <<>> THEN undefined ELSE prev[1]), coord>>
    ELSE Append(prev, coord)

\* An end of stroke that commits whatever is pending.
strokeCommitsAlways(drawing, pending) == drawing /\ Len(pending) >= 1

\* handleMouseUp commits unless (!isDrawing || currentDrawing.length < 2).
strokeCommits(drawing, pending) == drawing /\ Len(pending) >= 2

\* The element handleMouseUp builds; its id (draw_ + Date.now()) is only the
\* React key of the rendered shape and is left out.
newElement(mode, points) == [type |-> mode, points |-> points]

\* An undo that drops the oldest element.
undoLastOldest(elements) == SubSeq(elements, 2, Len(elements))

\* prev.slice(0, -1)
undoLast(elements) == SubSeq(elements, 1, Len(elements) - 1)

\* handleCameraSelect(id) run in a render that saw (selected, active); pending
\* is the active camera already queued by the same click.
handleCameraSelect(selected, active, pending, id) ==
    LET includes     == \E i \in DOMAIN selected : selected[i] = id
        newSelection == IF includes
                        THEN FilterSeq(LAMBDA c : c # id, selected)
                        ELSE Append(selected, id)
        remaining    == FilterSeq(LAMBDA c : c # id, newSelection)
    IN  [selectedCameras |-> newSelection,
         activeCameraId  |-> IF ~includes THEN id
                             ELSE IF active = id
                                  THEN (IF Len(remaining) > 0 THEN remaining[1] ELSE null)
                                  ELSE pending]

\* cameras.find(c => c.id === activeCameraId): the canvas element is rendered
\* only for an active camera.
activeCameraObj == activeCameraId \in Cameras

\* renderElement reads points[0].x of the preview as soon as the pending list
\* holds two entries; on undefined the render throws and, with no error
\* boundary, the tree is unmounted.
renderThrows == \E i \in DOMAIN currentDrawing : currentDrawing[i] = undefined

WizardMounted == isWizardOpen /\ ~renderThrows

NoGesture == [points |-> <<>>, modes |-> {}, cleared |-> FALSE]

RECURSIVE SumPoints(_)
SumPoints(elements) ==
    IF elements = <<>> THEN 0
    ELSE Len(Head(elements).points) + SumPoints(Tail(elements))

\* Points reported and kept so far: those of the committed elements and those
\* of the gesture in progress.
PointsHeld == SumPoints(drawElements) + Len(gesture.points)

\* A simplification that keeps one point in three, and the last.
RECURSIVE simplifiedEveryThirdFrom(_, _)
simplifiedEveryThirdFrom(points, i) ==
    IF i > Len(points) - 1 THEN <<>>
    ELSE (IF i % 3 = 0 \/ i = Len(points) - 1 THEN <<points[i + 1]>> ELSE <<>>)
         \o simplifiedEveryThirdFrom(points, i + 1)

simplifiedEveryThird(points) == simplifiedEveryThirdFrom(points, 0)

\* points.filter((_, i) => i % 2 === 0 || i === points.length - 1), from the
\* 0-based index i on.
RECURSIVE simplifiedFrom(_, _)
simplifiedFrom(points, i) ==
    IF i > Len(points) - 1 THEN <<>>
    ELSE (IF i % 2 = 0 \/ i = Len(points) - 1 THEN <<points[i + 1]>> ELSE <<>>)
         \o simplifiedFrom(points, i + 1)

\* The point list renderElement draws for a curve or a polygon.
simplified(points) == simplifiedFrom(points, 0)

(************************ TaskWizard: arrow rendering ***********************)
\* Head geometry is computed exactly, where the code computes in floating
\* point: a number is <<a, b, c, d>>, standing for
\* (a + b*sqrt(2) + c*sqrt(3) + d*sqrt(6)) / 4.
Num(k) == <<4 * k, 0, 0, 0>>

NumNeg(n) == <<-n[1], -n[2], -n[3], -n[4]>>

NumSub(m, n) == <<m[1] - n[1], m[2] - n[2], m[3] - n[3], m[4] - n[4]>>

NumAdd(m, n) == <<m[1] + n[1], m[2] + n[2], m[3] + n[3], m[4] + n[4]>>

\* An integer times a number.
NumScale(k, n) == <<k * n[1], k * n[2], k * n[3], k * n[4]>>

\* The product of two numbers, in sixteenths.
NumMul(m, n) ==
    <<m[1] * n[1] + 2 * m[2] * n[2] + 3 * m[3] * n[3] + 6 * m[4] * n[4],
      m[1] * n[2] + m[2] * n[1] + 3 * (m[3] * n[4] + m[4] * n[3]),
      m[1] * n[3] + m[3] * n[1] + 2 * (m[2] * n[4] + m[4] * n[2]),
      m[1] * n[4] + m[4] * n[1] + m[2] * n[3] + m[3] * n[2]>>

\* The cosine of 0, 15, ..., 90 degrees.
cosFirstQuadrant(deg) ==
    CASE deg = 0  -> <<4, 0, 0, 0>>
      [] deg = 15 -> <<0, 1, 0, 1>>
      [] deg = 30 -> <<0, 0, 2, 0>>
      [] deg = 45 -> <<0, 2, 0, 0>>
      [] deg = 60 -> <<2, 0, 0, 0>>
      [] deg = 75 -> <<0, -1, 0, 1>>
      [] deg = 90 -> <<0, 0, 0, 0>>

\* Math.cos, for an angle given in degrees, a multiple of 15.
cos(deg) ==
    LET d == (deg + 360) % 360
    IN  IF d <= 90 THEN cosFirstQuadrant(d)
        ELSE IF d <= 180 THEN NumNeg(cosFirstQuadrant(180 - d))
        ELSE IF d <= 270 THEN NumNeg(cosFirstQuadrant(d - 180))
        ELSE cosFirstQuadrant(360 - d)

\* Math.sin, for an angle given in degrees, a multiple of 15.
sin(deg) == cos(deg - 90)

\* Math.atan2(dy, dx) in degrees, for the directions that are multiples of 45
\* degrees; atan2(0, 0) is 0.
atan2(dy, dx) ==
    CASE dy = 0 /\ dx >= 0 -> 0
      [] dy = 0 /\ dx < 0  -> 180
      [] dx = 0 /\ dy > 0  -> 90
      [] dx = 0 /\ dy < 0  -> -90
      [] dy > 0 /\ dx = dy   -> 45
      [] dy > 0 /\ dx = -dy  -> 135
      [] dy < 0 /\ dx = dy   -> -135
      [] dy < 0 /\ dx = -dy  -> -45

\* const arrowLen = 2
arrowLen == 2

\* Head points set 60 degrees off the shaft.
arrowHeadsSixty(points) ==
    LET start == points[1]
        end   == points[Len(points)]
        angle == atan2(end.y - start.y, end.x - start.x)
    IN  [arrow1 |-> [x |-> NumSub(Num(end.x), NumScale(arrowLen, cos(angle - 60))),
                     y |-> NumSub(Num(end.y), NumScale(arrowLen, sin(angle - 60)))],
         arrow2 |-> [x |-> NumSub(Num(end.x), NumScale(arrowLen, cos(angle + 60))),
                     y |-> NumSub(Num(end.y), NumScale(arrowLen, sin(angle + 60)))]]

\* The two head points renderElement computes for an arrow, in overlay units
\* (the model's point coordinates are end.x * 100 and end.y * 100 already);
\* Math.PI / 6 is 30 degrees.
arrowHeads(points) ==
    LET start == points[1]
        end   == points[Len(points)]
        angle == atan2(end.y - start.y, end.x - start.x)
    IN  [arrow1 |-> [x |-> NumSub(Num(end.x), NumScale(arrowLen, cos(angle - 30))),
                     y |-> NumSub(Num(end.y), NumScale(arrowLen, sin(angle - 30)))],
         arrow2 |-> [x |-> NumSub(Num(end.x), NumScale(arrowLen, cos(angle + 30))),
                     y |-> NumSub(Num(end.y), NumScale(arrowLen, sin(angle + 30)))]]

\* Positions of mouse events at three corners of the canvas: the arrows drawn
\* between them are horizontal, vertical and diagonal.
ArrowPositions ==
    {[clientX |-> canvasRect.left, clientY |-> canvasRect.top],
     [clientX |-> canvasRect.left + canvasRect.width, clientY |-> canvasRect.top],
     [clientX |-> canvasRect.left, clientY |-> canvasRect.top + canvasRect.height]}

(************************ TaskWizard: the draft *****************************)
\* The first two entries of PRESET_ALGORITHMS.
PRESET_ALGORITHMS == {"fire", "helmet"}

\* Texts are sequences of characters; " " is the whitespace character.
TextInputs == {<<>>, <<" ">>, <<"a">>}

RECURSIVE trimStart(_)
trimStart(text) ==
    IF text # <<>> /\ Head(text) = " " THEN trimStart(Tail(text)) ELSE text

RECURSIVE trimEnd(_)
trimEnd(text) ==
    IF text # <<>> /\ text[Len(text)] = " "
    THEN trimEnd(SubSeq(text, 1, Len(text) - 1)) ELSE text

\* String.prototype.trim
trim(text) == trimEnd(trimStart(text))

\* What a number input hands to parseInt: not a number, or an integer.
NumberInputs ==
    {[isNaN |-> TRUE, value |-> 0], [isNaN |-> FALSE, value |-> 0],
     [isNaN |-> FALSE, value |-> -1], [isNaN |-> FALSE, value |-> 5]}

\* parseInt(v) || fallback: NaN and 0 are falsy.
parseIntOr(n, fallback) == IF n.isNaN \/ n.value = 0 THEN fallback ELSE n.value

\* useState(30) and the fallback of both threshold inputs.
DefaultThreshold == 30

\* Math.max(1, parseInt(e.target.value) || 30)
thresholdFromInput(n) == Max(1, parseIntOr(n, DefaultThreshold))

\* Math.max(0, parseInt(e.target.value) || 0)
durationFromInput(n) == Max(0, parseIntOr(n, 0))

AlarmLevel == {"HIGH", "MEDIUM", "LOW"}

\* genAiResult before any valid parse.
nullResult == [null |-> TRUE]

NoCall == [pending |-> FALSE]

\* What awaiting parseRuleDescription(userInput) can yield: the mock answer
\* given without an API key, the service's fallback after a failed request, a
\* model answer with valid = false and no reason, and an answer the wizard
\* cannot read (JSON.parse yields null), on which result.valid throws.
ParseOutcomes(userInput) ==
    {[kind |-> "result", valid |-> TRUE, object_name |-> <<"Mock Object">>,
      action_description |-> userInput, suggested_duration |-> 3,
      suggested_level |-> "HIGH", reason |-> "undefined"],
     [kind |-> "result", valid |-> FALSE, object_name |-> <<"Unknown">>,
      action_description |-> userInput, suggested_duration |-> 0,
      suggested_level |-> "MEDIUM", reason |-> "API Error or Timeout"],
     [kind |-> "result", valid |-> FALSE, object_name |-> <<"Unknown">>,
      action_description |-> userInput, suggested_duration |-> 0,
      suggested_level |-> "LOW", reason |-> "undefined"],
     [kind |-> "throws"]}

\* PRESET_ALGORITHMS.find(a => a.id === selectedAlgoId)?.name
algoName(id) == <<id>>

\* The name the effect builds, '' when there is nothing to build it from.
baseName(algoId, enabled, result) ==
    LET base == IF algoId # null THEN algoName(algoId) ELSE <<>>
    IN  IF enabled /\ result # nullResult /\ result.action_description # <<>>
        THEN base \o <<" ", "+", " ">> \o result.object_name
        ELSE base

\* An effect that rewrites the name whenever it can build one.
autoNameAlways(name, algoId, enabled, result) ==
    IF baseName(algoId, enabled, result) # <<>>
    THEN baseName(algoId, enabled, result) \o <<"_", "MMdd">>
    ELSE name

\* The useEffect on [selectedAlgoId, enableAiCustom, genAiResult, taskName],
\* run to its fixed point: it writes only while taskName is ''.
autoName(name, algoId, enabled, result) ==
    IF name = <<>> /\ baseName(algoId, enabled, result) # <<>>
    THEN baseName(algoId, enabled, result) \o <<"_", "MMdd">>
    ELSE name

\* A flattening that puts the newest element's points first.
RECURSIVE flatMapPointsNewestFirst(_)
flatMapPointsNewestFirst(elements) ==
    IF elements = <<>> THEN <<>>
    ELSE flatMapPointsNewestFirst(Tail(elements)) \o Head(elements).points

RECURSIVE flatMapPoints(_)
\* drawElements.flatMap(el => el.points)
flatMapPoints(elements) ==
    IF elements = <<>> THEN <<>>
    ELSE Head(elements).points \o flatMapPoints(Tail(elements))

\* The state of a wizard that has just been mounted.
WizardInit ==
    /\ selectedCameras = <<>>
    /\ activeCameraId = null
    /\ drawElements = <<>>
    /\ currentDrawing = <<>>
    /\ drawMode = "line"
    /\ isDrawing = FALSE
    /\ gesture = NoGesture
    /\ selectedAlgoId = null
    /\ enableAiCustom = FALSE
    /\ genAiInput = <<>>
    /\ genAiResult = nullResult
    /\ isParsing = FALSE
    /\ genAiError = null
    /\ taskName = <<>>
    /\ duration = 0
    /\ alarmLevel = "HIGH"
    /\ positiveThreshold = DefaultThreshold
    /\ negativeThreshold = DefaultThreshold
    /\ parseCall = NoCall

\* {isWizardOpen && <TaskWizard/>}: closing unmounts the component and its
\* state is discarded; the next mount starts from the useState defaults.  A
\* parse call still awaited stays in flight.
WizardUnmounts ==
    /\ selectedCameras' = <<>>
    /\ activeCameraId' = null
    /\ drawElements' = <<>>
    /\ currentDrawing' = <<>>
    /\ drawMode' = "line"
    /\ isDrawing' = FALSE
    /\ gesture' = NoGesture
    /\ selectedAlgoId' = null
    /\ enableAiCustom' = FALSE
    /\ genAiInput' = <<>>
    /\ genAiResult' = nullResult
    /\ isParsing' = FALSE
    /\ genAiError' = null
    /\ taskName' = <<>>
    /\ duration' = 0
    /\ alarmLevel' = "HIGH"
    /\ positiveThreshold' = DefaultThreshold
    /\ negativeThreshold' = DefaultThreshold
    /\ UNCHANGED parseCall

(***************************** Init ****************************************)
Init ==
    /\ tasks = MOCK_TASKS
    /\ isWizardOpen = FALSE
    /\ drawer = NoDrawer
    /\ timers = <<>>
    /\ nextId = FirstCreatedId
    /\ WizardInit
    /\ onSaveCalls = <<>>

(***************************** App actions *********************************)
\* "新建任务" button: setIsWizardOpen(true)
OpenWizard ==
    /\ NoOverlay
    /\ isWizardOpen' = TRUE
    /\ UNCHANGED <<tasks, drawer, timers, nextId>>
    /\ UNCHANGED wizardVars
    /\ UNCHANGED formVars
    /\ UNCHANGED onSaveCalls

\* TaskWizard onClose: setIsWizardOpen(false)
CloseWizard ==
    /\ isWizardOpen
    /\ isWizardOpen' = FALSE
    /\ UNCHANGED <<tasks, drawer, timers, nextId>>
    /\ WizardUnmounts
    /\ UNCHANGED onSaveCalls

\* An onSave that leaves the wizard open.
handleCreateTaskStaysOpen(partial) ==
    /\ isWizardOpen
    /\ nextId < FirstCreatedId + MaxCreated
    /\ tasks' = <<newTask(nextId, partial)>> \o tasks
    /\ timers' = Append(timers, [kind |-> "provision", id |-> nextId,
                                 total |-> 0, mounted |-> FALSE])
    /\ nextId' = nextId + 1
    /\ UNCHANGED <<isWizardOpen, drawer>>
    /\ UNCHANGED wizardVars
    /\ UNCHANGED formVars
    /\ onSaveCalls' = Append(onSaveCalls, partial)

\* TaskWizard onSave: the new task goes on top, the wizard closes and the
\* provisioning callback is scheduled.
handleCreateTask(partial) ==
    /\ isWizardOpen
    /\ nextId < FirstCreatedId + MaxCreated
    /\ tasks' = <<newTask(nextId, partial)>> \o tasks
    /\ isWizardOpen' = FALSE
    /\ timers' = Append(timers, [kind |-> "provision", id |-> nextId,
                                 total |-> 0, mounted |-> FALSE])
    /\ nextId' = nextId + 1
    /\ UNCHANGED drawer
    /\ WizardUnmounts
    /\ onSaveCalls' = Append(onSaveCalls, partial)

\* Fine-tune button of a task row: setFineTuningTask(task) mounts a TaskDrawer.
openDrawer(i) ==
    /\ NoOverlay
    /\ i \in DOMAIN tasks
    /\ fineTuneButtonEnabled(tasks[i])
    /\ drawer' = [open |-> TRUE, task |-> tasks[i].id,
                  positive_threshold |-> tasks[i].positive_threshold,
                  negative_threshold |-> tasks[i].negative_threshold,
                  samples |-> generateMockSamples(NumSamples),
                  isTraining |-> FALSE]
    /\ UNCHANGED <<tasks, isWizardOpen, timers, nextId>>
    /\ UNCHANGED wizardVars
    /\ UNCHANGED formVars
    /\ UNCHANGED onSaveCalls

\* Stop button of a task row.
StopTask(i) ==
    /\ NoOverlay
    /\ i \in DOMAIN tasks
    /\ showsStopButton(tasks[i])
    /\ tasks' = updateTaskStatus(tasks, tasks[i].id, "STOPPED")
    /\ UNCHANGED <<isWizardOpen, drawer, timers, nextId>>
    /\ UNCHANGED wizardVars
    /\ UNCHANGED formVars
    /\ UNCHANGED onSaveCalls

\* Start button of a task row.
StartTask(i) ==
    /\ NoOverlay
    /\ i \in DOMAIN tasks
    /\ ~showsStopButton(tasks[i])
    /\ tasks' = updateTaskStatus(tasks, tasks[i].id, "RUNNING")
    /\ UNCHANGED <<isWizardOpen, drawer, timers, nextId>>
    /\ UNCHANGED wizardVars
    /\ UNCHANGED formVars
    /\ UNCHANGED onSaveCalls

\* Delete button of a task row, with window.confirm's answer.
handleDeleteTask(i, confirmed) ==
    /\ NoOverlay
    /\ i \in DOMAIN tasks
    /\ tasks' = IF confirmed THEN deleteTask(tasks, tasks[i].id) ELSE tasks
    /\ UNCHANGED <<isWizardOpen, drawer, timers, nextId>>
    /\ UNCHANGED wizardVars
    /\ UNCHANGED formVars
    /\ UNCHANGED onSaveCalls

(***************************** TaskDrawer actions **************************)
\* A hover button of a sample card; cards of ignored samples are not rendered.
handleLabel(id, label) ==
    /\ drawer.open
    /\ id \in DOMAIN drawer.samples
    /\ drawer.samples[id] # "IGNORED"
    /\ drawer' = [drawer EXCEPT !.samples = labelSample(drawer.samples, id, label)]
    /\ UNCHANGED <<tasks, isWizardOpen, timers, nextId>>
    /\ UNCHANGED wizardVars
    /\ UNCHANGED formVars
    /\ UNCHANGED onSaveCalls

\* Start button of the drawer, with window.confirm's answer.  The callback
\* keeps the stats of the render in which the button was pressed.
handleStartTraining(confirmed) ==
    /\ drawer.open
    /\ startButtonEnabled(drawer)
    /\ Cardinality(PendingTraining(timers)) < MaxTimers
    /\ IF confirmed
       THEN /\ drawer' = [drawer EXCEPT !.isTraining = TRUE]
            /\ timers' = Append(timers,
                   [kind |-> "training", id |-> drawer.task,
                    total |-> stats(drawer.samples).positive
                              + stats(drawer.samples).negative,
                    mounted |-> TRUE])
       ELSE UNCHANGED <<drawer, timers>>
    /\ UNCHANGED <<tasks, isWizardOpen, nextId>>
    /\ UNCHANGED wizardVars
    /\ UNCHANGED formVars
    /\ UNCHANGED onSaveCalls

\* Close button of the drawer: setFineTuningTask(null) unmounts the drawer;
\* its pending callback stays scheduled.
closeDrawer ==
    /\ drawer.open
    /\ drawer' = NoDrawer
    /\ timers' = unmountAll(timers)
    /\ UNCHANGED <<tasks, isWizardOpen, nextId>>
    /\ UNCHANGED wizardVars
    /\ UNCHANGED formVars
    /\ UNCHANGED onSaveCalls

(***************************** callbacks ***********************************)
\* setTimeout of handleCreateTask fires.
FireProvisioning(i) ==
    /\ i \in DOMAIN timers
    /\ timers[i].kind = "provision"
    /\ MayFire(timers, i)
    /\ tasks' = provisioningCallback(tasks, timers[i].id)
    /\ timers' = RemoveAt(timers, i)
    /\ UNCHANGED <<isWizardOpen, drawer, nextId>>
    /\ UNCHANGED wizardVars
    /\ UNCHANGED formVars
    /\ UNCHANGED onSaveCalls

\* setTimeout of handleStartTraining fires: onUpdateStatus, onUpdateSampleCount, onClose.
FireTrainingStart(i) ==
    /\ i \in DOMAIN timers
    /\ timers[i].kind = "training"
    /\ MayFire(timers, i)
    /\ tasks' = updateTaskSampleCount(
                    updateTaskStatus(tasks, timers[i].id, "TRAINING"),
                    timers[i].id, timers[i].total)
    /\ drawer' = NoDrawer
    /\ timers' = unmountAll(RemoveAt(timers, i))
    /\ UNCHANGED <<isWizardOpen, nextId>>
    /\ UNCHANGED wizardVars
    /\ UNCHANGED formVars
    /\ UNCHANGED onSaveCalls

FireHead == FireProvisioning(1) \/ FireTrainingStart(1)

(***************************** specification *******************************)
Next ==
    \/ OpenWizard
    \/ CloseWizard
    \/ \E pt \in 1 .. MaxThreshold, nt \in 1 .. MaxThreshold :
          handleCreateTask([total |-> 0, positive_threshold |-> pt,
                            negative_threshold |-> nt])
    \/ \E i \in 1 .. Len(tasks) : openDrawer(i)
    \/ \E i \in 1 .. Len(tasks) : StopTask(i)
    \/ \E i \in 1 .. Len(tasks) : StartTask(i)
    \/ \E i \in 1 .. Len(tasks), confirmed \in BOOLEAN : handleDeleteTask(i, confirmed)
    \/ \E id \in 1 .. NumSamples, label \in LabelButtons : handleLabel(id, label)
    \/ \E confirmed \in BOOLEAN : handleStartTraining(confirmed)
    \/ closeDrawer
    \/ \E i \in 1 .. Len(timers) : FireProvisioning(i)
    \/ \E i \in 1 .. Len(timers) : FireTrainingStart(i)

Spec == Init /\ [][Next]_vars

\* The event loop runs a due callback: the oldest pending timer always fires.
FairSpec == Spec /\ WF_vars(FireHead)

(***************************** sample curation alone ***********************)
\* A drawer session on a created, provisioned task with thresholds (pt, nt):
\* every labeling of its samples is reached by label commands alone.
InitGate ==
    /\ \E pt \in 1 .. GateMaxThreshold, nt \in 1 .. GateMaxThreshold :
          /\ tasks = <<[newTask(FirstCreatedId,
                                [total |-> 0, positive_threshold |-> pt,
                                 negative_threshold |-> nt])
                           EXCEPT !.status = "RUNNING"]>> \o MOCK_TASKS
          /\ drawer = [open |-> TRUE, task |-> FirstCreatedId,
                       positive_threshold |-> pt,
                       negative_threshold |-> nt,
                       samples |-> generateMockSamples(GateSamples),
                       isTraining |-> FALSE]
    /\ isWizardOpen = FALSE
    /\ timers = <<>>
    /\ nextId = FirstCreatedId + 1
    /\ WizardInit
    /\ onSaveCalls = <<>>

NextGate ==
    \E id \in 1 .. GateSamples, label \in LabelButtons : handleLabel(id, label)

SpecGate == InitGate /\ [][NextGate]_vars

(***************************** tuning status alone *************************)
\* A drawer session in which pos samples are labeled positive and neg negative.
labeledSamples(count, pos, neg) ==
    [i \in 1 .. count |->
        IF i <= pos THEN "POSITIVE"
        ELSE IF i <= pos + neg THEN "NEGATIVE" ELSE "UNLABELED"]

\* The tuning status as a function of the counts and the thresholds: a drawer
\* session on a created, provisioned task with thresholds (pt, nt), at a point
\* where some of its samples are labeled.  The drawer of the build generates
\* 50 samples; the session here holds IndicatorSamples of them, so that the
\* counts range over every value up to the largest threshold.
InitIndicator ==
    /\ \E pt \in IndicatorMinThreshold .. IndicatorMaxThreshold,
          nt \in 1 .. IndicatorNegThreshold,
          pos \in 0 .. IndicatorSamples - IndicatorNegThreshold - 1,
          neg \in 0 .. IndicatorNegThreshold :
          /\ tasks = <<[newTask(FirstCreatedId,
                                [total |-> 0, positive_threshold |-> pt,
                                 negative_threshold |-> nt])
                           EXCEPT !.status = "RUNNING"]>> \o MOCK_TASKS
          /\ drawer = [open |-> TRUE, task |-> FirstCreatedId,
                       positive_threshold |-> pt,
                       negative_threshold |-> nt,
                       samples |-> labeledSamples(IndicatorSamples, pos, neg),
                       isTraining |-> FALSE]
    /\ isWizardOpen = FALSE
    /\ timers = <<>>
    /\ nextId = FirstCreatedId + 1
    /\ WizardInit
    /\ onSaveCalls = <<>>

\* The hover buttons of the last card.
NextIndicator ==
    \E label \in LabelButtons : handleLabel(IndicatorSamples, label)

SpecIndicator == InitIndicator /\ [][NextIndicator]_vars

(***************************** TaskWizard actions **************************)
\* onMouseDown of the canvas.  Nothing in the handler asks whether a stroke
\* is already in progress.
handleMouseDown(e) ==
    /\ WizardMounted
    /\ activeCameraObj
    /\ SumPoints(drawElements) < MaxPointsHeld
    /\ isDrawing' = TRUE
    /\ currentDrawing' = <<getCanvasCoords(e)>>
    /\ gesture' = [points |-> <<getCanvasCoords(e)>>, modes |-> {drawMode},
                   cleared |-> FALSE]
    /\ UNCHANGED <<selectedCameras, activeCameraId, drawElements, drawMode>>
    /\ UNCHANGED appVars
    /\ UNCHANGED formVars
    /\ UNCHANGED onSaveCalls

\* onMouseMove of the canvas: returns at once unless isDrawing.
handleMouseMove(e) ==
    /\ WizardMounted
    /\ activeCameraObj
    /\ IF ~isDrawing
       THEN UNCHANGED <<currentDrawing, gesture>>
       ELSE /\ PointsHeld < MaxPointsHeld
            /\ currentDrawing' = extendDrawing(currentDrawing, drawMode,
                                               getCanvasCoords(e))
            /\ gesture' = [gesture EXCEPT
                              !.points = Append(@, getCanvasCoords(e)),
                              !.modes  = @ \cup {drawMode}]
    /\ UNCHANGED <<selectedCameras, activeCameraId, drawElements, drawMode, isDrawing>>
    /\ UNCHANGED appVars
    /\ UNCHANGED formVars
    /\ UNCHANGED onSaveCalls

\* handleMouseUp: drop a stroke of fewer than two points, commit any other.
handleMouseUp ==
    /\ WizardMounted
    /\ activeCameraObj
    /\ drawElements' = IF strokeCommits(isDrawing, currentDrawing)
                       THEN Append(drawElements, newElement(drawMode, currentDrawing))
                       ELSE drawElements
    /\ isDrawing' = FALSE
    /\ currentDrawing' = <<>>
    /\ gesture' = NoGesture
    /\ UNCHANGED <<selectedCameras, activeCameraId, drawMode>>
    /\ UNCHANGED appVars
    /\ UNCHANGED formVars
    /\ UNCHANGED onSaveCalls

\* A leave that the canvas does not listen to.
onMouseLeaveUnheard == WizardMounted /\ activeCameraObj /\ UNCHANGED vars

\* onMouseUp={handleMouseUp}
onMouseUp == handleMouseUp

\* onMouseLeave={handleMouseUp}
onMouseLeave == handleMouseUp

\* The four draw-mode buttons.  Like every button of the toolbar they can be
\* activated from the keyboard while the mouse button is held on the canvas.
setDrawMode(mode) ==
    /\ WizardMounted
    /\ drawMode' = mode
    /\ UNCHANGED <<selectedCameras, activeCameraId, drawElements, currentDrawing,
                   isDrawing, gesture>>
    /\ UNCHANGED appVars
    /\ UNCHANGED formVars
    /\ UNCHANGED onSaveCalls

\* Undo button: disabled={drawElements.length === 0}.
handleUndo ==
    /\ WizardMounted
    /\ Len(drawElements) # 0
    /\ drawElements' = undoLast(drawElements)
    /\ UNCHANGED <<selectedCameras, activeCameraId, currentDrawing, drawMode,
                   isDrawing, gesture>>
    /\ UNCHANGED appVars
    /\ UNCHANGED formVars
    /\ UNCHANGED onSaveCalls

\* Clear button: setDrawElements([]); setCurrentDrawing([]).
handleClearAll ==
    /\ WizardMounted
    /\ drawElements' = <<>>
    /\ currentDrawing' = <<>>
    /\ gesture' = IF isDrawing THEN [gesture EXCEPT !.cleared = TRUE] ELSE gesture
    /\ UNCHANGED <<selectedCameras, activeCameraId, drawMode, isDrawing>>
    /\ UNCHANGED appVars
    /\ UNCHANGED formVars
    /\ UNCHANGED onSaveCalls

\* Click on a row of the camera list: setActiveCameraId(cam.id).
clickCameraRow(id) ==
    /\ WizardMounted
    /\ activeCameraId' = id
    /\ UNCHANGED <<selectedCameras, drawElements, currentDrawing, drawMode,
                   isDrawing, gesture>>
    /\ UNCHANGED appVars
    /\ UNCHANGED formVars
    /\ UNCHANGED onSaveCalls

\* Click on a tab of the preview switcher, shown for the selected cameras.
clickPreviewTab(id) ==
    /\ WizardMounted
    /\ \E i \in DOMAIN selectedCameras : selectedCameras[i] = id
    /\ activeCameraId' = id
    /\ UNCHANGED <<selectedCameras, drawElements, currentDrawing, drawMode,
                   isDrawing, gesture>>
    /\ UNCHANGED appVars
    /\ UNCHANGED formVars
    /\ UNCHANGED onSaveCalls

\* A checkbox click that also empties the committed list.
clickCameraCheckboxClearsRoi(id) ==
    /\ WizardMounted
    /\ selectedCameras' =
          handleCameraSelect(selectedCameras, activeCameraId, id, id).selectedCameras
    /\ activeCameraId' =
          handleCameraSelect(selectedCameras, activeCameraId, id, id).activeCameraId
    /\ drawElements' = <<>>
    /\ UNCHANGED <<currentDrawing, drawMode, isDrawing, gesture>>
    /\ UNCHANGED appVars
    /\ UNCHANGED formVars
    /\ UNCHANGED onSaveCalls

\* Click on the checkbox of a camera row.  The click also reaches the row's
\* onClick (stopPropagation in onChange stops the change event only), which
\* queues setActiveCameraId(id) before handleCameraSelect runs.
clickCameraCheckbox(id) ==
    /\ WizardMounted
    /\ selectedCameras' =
          handleCameraSelect(selectedCameras, activeCameraId, id, id).selectedCameras
    /\ activeCameraId' =
          handleCameraSelect(selectedCameras, activeCameraId, id, id).activeCameraId
    /\ UNCHANGED <<drawElements, currentDrawing, drawMode, isDrawing, gesture>>
    /\ UNCHANGED appVars
    /\ UNCHANGED formVars
    /\ UNCHANGED onSaveCalls

\* One wizard session: the wizard has just been opened from the task list.
InitDraw ==
    /\ tasks = MOCK_TASKS
    /\ isWizardOpen = TRUE
    /\ drawer = NoDrawer
    /\ timers = <<>>
    /\ nextId = FirstCreatedId
    /\ WizardInit
    /\ onSaveCalls = <<>>

NextDraw ==
    \/ \E e \in PointerPositions : handleMouseDown(e)
    \/ \E e \in PointerPositions : handleMouseMove(e)
    \/ onMouseUp
    \/ onMouseLeave
    \/ \E mode \in DrawMode : setDrawMode(mode)
    \/ handleUndo
    \/ handleClearAll
    \/ \E id \in Cameras : clickCameraRow(id)
    \/ \E id \in Cameras : clickPreviewTab(id)
    \/ \E id \in Cameras : clickCameraCheckbox(id)

SpecDraw == InitDraw /\ [][NextDraw]_vars

(***************************** TaskWizard: draft actions *******************)
\* Click on a card of the preset catalog: setSelectedAlgoId(algo.id); the name
\* effect runs on the new selection.
selectAlgo(id) ==
    /\ WizardMounted
    /\ selectedAlgoId' = id
    /\ taskName' = autoName(taskName, id, enableAiCustom, genAiResult)
    /\ UNCHANGED <<enableAiCustom, genAiInput, genAiResult, isParsing, genAiError,
                   duration, alarmLevel, positiveThreshold, negativeThreshold,
                   parseCall, onSaveCalls>>
    /\ UNCHANGED <<appVars, wizardVars>>

\* A toggle that switches with no preset chosen.
toggleAiCustomUnguarded ==
    /\ WizardMounted
    /\ enableAiCustom' = ~enableAiCustom
    /\ taskName' = autoName(taskName, selectedAlgoId, ~enableAiCustom, genAiResult)
    /\ UNCHANGED <<selectedAlgoId, genAiInput, genAiResult, isParsing, genAiError,
                   duration, alarmLevel, positiveThreshold, negativeThreshold,
                   parseCall, onSaveCalls>>
    /\ UNCHANGED <<appVars, wizardVars>>

\* The switch of the AI customization: an alert and nothing else while no
\* preset is chosen.
toggleAiCustom ==
    /\ WizardMounted
    /\ IF selectedAlgoId = null
       THEN UNCHANGED <<enableAiCustom, taskName>>
       ELSE /\ enableAiCustom' = ~enableAiCustom
            /\ taskName' = autoName(taskName, selectedAlgoId, ~enableAiCustom,
                                    genAiResult)
    /\ UNCHANGED <<selectedAlgoId, genAiInput, genAiResult, isParsing, genAiError,
                   duration, alarmLevel, positiveThreshold, negativeThreshold,
                   parseCall, onSaveCalls>>
    /\ UNCHANGED <<appVars, wizardVars>>

\* The textarea of the customization, rendered while it is enabled.
typeGenAiInput(text) ==
    /\ WizardMounted
    /\ enableAiCustom
    /\ genAiInput' = text
    /\ UNCHANGED <<selectedAlgoId, enableAiCustom, genAiResult, isParsing, genAiError,
                   taskName, duration, alarmLevel, positiveThreshold,
                   negativeThreshold, parseCall, onSaveCalls>>
    /\ UNCHANGED <<appVars, wizardVars>>

\* The name input: setTaskName(e.target.value), then the name effect.
typeTaskName(text) ==
    /\ WizardMounted
    /\ taskName' = autoName(text, selectedAlgoId, enableAiCustom, genAiResult)
    /\ UNCHANGED <<selectedAlgoId, enableAiCustom, genAiInput, genAiResult, isParsing,
                   genAiError, duration, alarmLevel, positiveThreshold,
                   negativeThreshold, parseCall, onSaveCalls>>
    /\ UNCHANGED <<appVars, wizardVars>>

typeDuration(n) ==
    /\ WizardMounted
    /\ duration' = durationFromInput(n)
    /\ UNCHANGED <<selectedAlgoId, enableAiCustom, genAiInput, genAiResult, isParsing,
                   genAiError, taskName, alarmLevel, positiveThreshold,
                   negativeThreshold, parseCall, onSaveCalls>>
    /\ UNCHANGED <<appVars, wizardVars>>

clickAlarmLevel(lvl) ==
    /\ WizardMounted
    /\ alarmLevel' = lvl
    /\ UNCHANGED <<selectedAlgoId, enableAiCustom, genAiInput, genAiResult, isParsing,
                   genAiError, taskName, duration, positiveThreshold,
                   negativeThreshold, parseCall, onSaveCalls>>
    /\ UNCHANGED <<appVars, wizardVars>>

typePositiveThreshold(n) ==
    /\ WizardMounted
    /\ positiveThreshold' = thresholdFromInput(n)
    /\ UNCHANGED <<selectedAlgoId, enableAiCustom, genAiInput, genAiResult, isParsing,
                   genAiError, taskName, duration, alarmLevel, negativeThreshold,
                   parseCall, onSaveCalls>>
    /\ UNCHANGED <<appVars, wizardVars>>

typeNegativeThreshold(n) ==
    /\ WizardMounted
    /\ negativeThreshold' = thresholdFromInput(n)
    /\ UNCHANGED <<selectedAlgoId, enableAiCustom, genAiInput, genAiResult, isParsing,
                   genAiError, taskName, duration, alarmLevel, positiveThreshold,
                   parseCall, onSaveCalls>>
    /\ UNCHANGED <<appVars, wizardVars>>

\* The two fixed messages of handleParse (their text is Chinese in the source).
ApiFailedMessage == "API request failed, check the network"
AmbiguousMessage == "ambiguous, describe again"

\* A handling of the answer that applies the suggestions before it looks at
\* valid.
parseSettledEager(outcome, result, error, dur, lvl) ==
    IF outcome.kind = "throws"
    THEN [genAiResult |-> result, genAiError |-> ApiFailedMessage,
          duration |-> dur, alarmLevel |-> lvl]
    ELSE [genAiResult |-> IF outcome.valid THEN outcome ELSE result,
          genAiError  |-> IF outcome.valid THEN error
                          ELSE IF outcome.reason # "undefined" THEN outcome.reason
                               ELSE AmbiguousMessage,
          duration    |-> outcome.suggested_duration,
          alarmLevel  |-> outcome.suggested_level]

\* What handleParse writes once the awaited call has settled: the try branch
\* on valid, its else branch, or the catch branch.  Every valid outcome of
\* ParseOutcomes carries both suggestions, so both are applied.
parseSettled(outcome, result, error, dur, lvl) ==
    IF outcome.kind = "throws"
    THEN [genAiResult |-> result, genAiError |-> ApiFailedMessage,
          duration |-> dur, alarmLevel |-> lvl]
    ELSE IF outcome.valid
         THEN [genAiResult |-> outcome, genAiError |-> error,
               duration    |-> outcome.suggested_duration,
               alarmLevel  |-> outcome.suggested_level]
         ELSE [genAiResult |-> result,
               genAiError  |-> IF outcome.reason # "undefined" THEN outcome.reason
                               ELSE AmbiguousMessage,
               duration |-> dur, alarmLevel |-> lvl]

\* handleParse up to its await.  The wizard renders no control bound to
\* handleParse; calls are taken one after another, each awaited before the next.
handleParse ==
    /\ WizardMounted
    /\ parseCall = NoCall
    /\ IF trim(genAiInput) = <<>>
       THEN UNCHANGED <<isParsing, genAiError, genAiResult, taskName, parseCall>>
       ELSE /\ isParsing' = TRUE
            /\ genAiError' = null
            /\ genAiResult' = nullResult
            /\ taskName' = autoName(taskName, selectedAlgoId, enableAiCustom, nullResult)
            /\ parseCall' = [pending |-> TRUE, userInput |-> genAiInput]
    /\ UNCHANGED <<selectedAlgoId, enableAiCustom, genAiInput, duration, alarmLevel,
                   positiveThreshold, negativeThreshold, onSaveCalls>>
    /\ UNCHANGED <<appVars, wizardVars>>

\* handleParse after its await, finally included.  On a wizard that has been
\* closed meanwhile the state setters do nothing.
handleParseSettles(outcome) ==
    /\ parseCall # NoCall
    /\ outcome \in ParseOutcomes(parseCall.userInput)
    /\ parseCall' = NoCall
    /\ IF WizardMounted
       THEN LET w == parseSettled(outcome, genAiResult, genAiError, duration, alarmLevel)
            IN  /\ genAiResult' = w.genAiResult
                /\ genAiError' = w.genAiError
                /\ duration' = w.duration
                /\ alarmLevel' = w.alarmLevel
                /\ isParsing' = FALSE
                /\ taskName' = autoName(taskName, selectedAlgoId, enableAiCustom,
                                        w.genAiResult)
       ELSE UNCHANGED <<genAiResult, genAiError, duration, alarmLevel, isParsing, taskName>>
    /\ UNCHANGED <<selectedAlgoId, enableAiCustom, genAiInput, positiveThreshold,
                   negativeThreshold, onSaveCalls>>
    /\ UNCHANGED <<appVars, wizardVars>>

\* The draft handleFinish hands to onSave.
draft ==
    [name |-> taskName,
     camera_ids |-> selectedCameras,
     roi |-> flatMapPoints(drawElements),
     algorithm |-> selectedAlgoId,
     nlp_text |-> IF enableAiCustom /\ trim(genAiInput) # <<>>
                  THEN <<genAiInput>> ELSE <<>>,
     duration |-> duration,
     alarm_level |-> alarmLevel,
     total |-> 0,
     labeled |-> 0,
     positive_threshold |-> positiveThreshold,
     negative_threshold |-> negativeThreshold]

\* A validation without the check of the algorithm.
draftValidWithoutAlgo ==
    /\ Len(selectedCameras) # 0
    /\ ~(enableAiCustom /\ trim(genAiInput) = <<>>)
    /\ trim(taskName) # <<>>

\* A validation that lets a whitespace name through.
draftValidUntrimmed ==
    /\ Len(selectedCameras) # 0
    /\ selectedAlgoId # null
    /\ ~(enableAiCustom /\ trim(genAiInput) = <<>>)
    /\ taskName # <<>>

\* The four checks of handleFinish that end in an alert.
draftValid ==
    /\ Len(selectedCameras) # 0
    /\ selectedAlgoId # null
    /\ ~(enableAiCustom /\ trim(genAiInput) = <<>>)
    /\ trim(taskName) # <<>>

\* A finish that never asks.
roiConfirmedAlways(confirmed) == TRUE

\* window.confirm is asked only for an empty drawElements.
roiConfirmed(confirmed) == Len(drawElements) = 0 => confirmed

\* The finish button; confirmed is the answer window.confirm would give.
\* onSave is App.handleCreateTask.
handleFinish(confirmed) ==
    /\ WizardMounted
    /\ IF draftValid /\ roiConfirmed(confirmed)
       THEN handleCreateTask(draft)
       ELSE UNCHANGED vars

\* One wizard session seen from its form: the wizard has just been opened.
InitForm ==
    /\ tasks = MOCK_TASKS
    /\ isWizardOpen = TRUE
    /\ drawer = NoDrawer
    /\ timers = <<>>
    /\ nextId = FirstCreatedId
    /\ WizardInit
    /\ onSaveCalls = <<>>

NextForm ==
    \/ \E id \in Cameras : clickCameraCheckbox(id)
    \/ \E id \in PRESET_ALGORITHMS : selectAlgo(id)
    \/ toggleAiCustom
    \/ \E text \in TextInputs : typeGenAiInput(text)
    \/ \E text \in TextInputs : typeTaskName(text)
    \/ \E n \in NumberInputs : typeDuration(n)
    \/ \E lvl \in AlarmLevel : clickAlarmLevel(lvl)
    \/ \E n \in NumberInputs : typePositiveThreshold(n)
    \/ \E n \in NumberInputs : typeNegativeThreshold(n)
    \/ handleParse
    \/ \E outcome \in ParseOutcomes(<<>>) \cup ParseOutcomes(<<"a">>) :
          handleParseSettles(outcome)
    \/ \E confirmed \in BOOLEAN : handleFinish(confirmed)
    \/ CloseWizard

SpecForm == InitForm /\ [][NextForm]_vars

\* One wizard session with the form already valid: camera cam1 selected and
\* previewed, the preset fire chosen and the name filled from it.
InitRoi ==
    /\ tasks = MOCK_TASKS
    /\ isWizardOpen = TRUE
    /\ drawer = NoDrawer
    /\ timers = <<>>
    /\ nextId = FirstCreatedId
    /\ selectedCameras = <<"cam1">>
    /\ activeCameraId = "cam1"
    /\ drawElements = <<>>
    /\ currentDrawing = <<>>
    /\ drawMode = "line"
    /\ isDrawing = FALSE
    /\ gesture = NoGesture
    /\ selectedAlgoId = "fire"
    /\ enableAiCustom = FALSE
    /\ genAiInput = <<>>
    /\ genAiResult = nullResult
    /\ isParsing = FALSE
    /\ genAiError = null
    /\ taskName = autoName(<<>>, "fire", FALSE, nullResult)
    /\ duration = 0
    /\ alarmLevel = "HIGH"
    /\ positiveThreshold = DefaultThreshold
    /\ negativeThreshold = DefaultThreshold
    /\ parseCall = NoCall
    /\ onSaveCalls = <<>>

NextRoi ==
    \/ \E e \in PointerPositions : handleMouseDown(e)
    \/ \E e \in PointerPositions : handleMouseMove(e)
    \/ onMouseUp
    \/ \E mode \in DrawMode : setDrawMode(mode)
    \/ handleUndo
    \/ handleClearAll
    \/ \E confirmed \in BOOLEAN : handleFinish(confirmed)

SpecRoi == InitRoi /\ [][NextRoi]_vars

\* One wizard session in which arrows are drawn on the previewed camera cam1.
InitArrow ==
    /\ tasks = MOCK_TASKS
    /\ isWizardOpen = TRUE
    /\ drawer = NoDrawer
    /\ timers = <<>>
    /\ nextId = FirstCreatedId
    /\ selectedCameras = <<"cam1">>
    /\ activeCameraId = "cam1"
    /\ drawElements = <<>>
    /\ currentDrawing = <<>>
    /\ drawMode = "arrow"
    /\ isDrawing = FALSE
    /\ gesture = NoGesture
    /\ selectedAlgoId = null
    /\ enableAiCustom = FALSE
    /\ genAiInput = <<>>
    /\ genAiResult = nullResult
    /\ isParsing = FALSE
    /\ genAiError = null
    /\ taskName = <<>>
    /\ duration = 0
    /\ alarmLevel = "HIGH"
    /\ positiveThreshold = DefaultThreshold
    /\ negativeThreshold = DefaultThreshold
    /\ parseCall = NoCall
    /\ onSaveCalls = <<>>

NextArrow ==
    \/ \E e \in ArrowPositions : handleMouseDown(e)
    \/ \E e \in ArrowPositions : handleMouseMove(e)
    \/ onMouseUp
    \/ handleUndo

SpecArrow == InitArrow /\ [][NextArrow]_vars

(***************************** properties **********************************)
\* The status of task id in list ts; "DELETED" once the task is no longer listed.
StatusOf(ts, id) == IF id \in IdsOf(ts) THEN TaskOf(ts, id).status ELSE "DELETED"

\* Counting by index set, independently of stats.
NumWithLabel(samples, label) ==
    Cardinality({i \in DOMAIN samples : samples[i] = label})

\* Ids of the tasks created so far by the wizard.
CreatedIds == FirstCreatedId .. (nextId - 1)

\* C1: no task ever moves directly from INIT to TRAINING: no step takes a task
\* whose status is INIT to status TRAINING.
C1_NoInitToTraining ==
    [][\A id \in TaskIds :
          StatusOf(tasks, id) = "INIT" => StatusOf(tasks', id) # "TRAINING"]_vars

\* C2: the explicit start command changes a task's status to RUNNING only when
\* the task is STOPPED; it never acts on a task that is INIT or TRAINING.
C2_StartOnlyFromStopped ==
    [][\A i \in DOMAIN tasks : StartTask(i) => tasks[i].status = "STOPPED"]_vars

\* C3: no task ever moves directly from INIT to STOPPED: whenever a step gives a
\* task the status STOPPED, the task was RUNNING before the step (only the stop
\* command, accepted for a RUNNING task, writes STOPPED; no callback does).
C3_StoppedOnlyFromRunning ==
    [][\A id \in TaskIds :
          (StatusOf(tasks', id) = "STOPPED" /\ StatusOf(tasks, id) # "STOPPED")
              => StatusOf(tasks, id) = "RUNNING"]_vars

\* A task created by the wizard has been stopped.
C3_Witness ==
    \E id \in CreatedIds : StatusOf(tasks, id) = "STOPPED"

\* C4: every task that enters TRAINING and is not deleted eventually returns to
\* RUNNING through scheduled callbacks alone (no user command is needed).
C4_TrainingReturnsToRunning ==
    \A id \in TaskIds :
        (StatusOf(tasks, id) = "TRAINING")
            ~> (StatusOf(tasks, id) \in {"RUNNING", "DELETED"})

\* C5: every task the wizard creates enters the list in INIT and, unless it is
\* deleted first, eventually has status RUNNING through the provisioning
\* callback, with no user command needed.
C5_CreatedEventuallyRunning ==
    /\ [][\A id \in TaskIds :
             (id \notin IdsOf(tasks) /\ id \in IdsOf(tasks'))
                 => StatusOf(tasks', id) = "INIT"]_vars
    /\ \A id \in TaskIds :
          (StatusOf(tasks, id) = "INIT")
              ~> (StatusOf(tasks, id) \in {"RUNNING", "DELETED"})

\* A created task is RUNNING and its provisioning callback has fired.
C5_Witness ==
    \E id \in CreatedIds :
        /\ StatusOf(tasks, id) = "RUNNING"
        /\ \A i \in DOMAIN timers : timers[i].id # id

\* C6: once a task has been deleted no step lists it again, and a provisioning
\* or training-start callback that fires for it leaves the task list as it was.
C6_DeletedStaysDeleted ==
    [][\A id \in TaskIds :
          (id < nextId /\ id \notin IdsOf(tasks))
              => /\ id \notin IdsOf(tasks')
                 /\ \A i \in DOMAIN timers :
                       (timers[i].id = id
                          /\ (FireProvisioning(i) \/ FireTrainingStart(i)))
                           => tasks' = tasks]_vars

\* A deleted task still has a callback pending that is free to fire.
C6_Witness ==
    \E i \in DOMAIN timers :
        /\ timers[i].id \notin IdsOf(tasks)
        /\ MayFire(timers, i)
        /\ Len(tasks) > 0

\* C7: a training start is accepted (the drawer turns to isTraining, a
\* training-start callback is scheduled) only in a state whose labels hold at
\* least positive_threshold positives and at least negative_threshold
\* negatives; a TRAINING status is written only by such a scheduled callback.
C7_StartTrainingGated ==
    [][/\ ((\/ Cardinality(PendingTraining(timers'))
                  > Cardinality(PendingTraining(timers))
             \/ (drawer.open /\ drawer'.open
                   /\ ~drawer.isTraining /\ drawer'.isTraining))
            => /\ drawer.open
               /\ ~drawer.isTraining
               /\ NumWithLabel(drawer.samples, "POSITIVE")
                      >= drawer.positive_threshold
               /\ NumWithLabel(drawer.samples, "NEGATIVE")
                      >= drawer.negative_threshold)
       /\ \A id \in TaskIds :
             (StatusOf(tasks', id) = "TRAINING" /\ StatusOf(tasks, id) # "TRAINING")
                 => \E i \in PendingTraining(timers) : timers[i].id = id]_vars

\* A confirmed training start is pending for the open drawer.
C7_Witness ==
    /\ drawer.open
    /\ drawer.isTraining
    /\ \E i \in PendingTraining(timers) : timers[i].mounted

\* C8: when the training-start callback writes the observed total while its
\* drawer is still mounted, the total equals the number of samples labeled
\* positive plus the number labeled negative at the moment of the write.
C8_TotalFromCurrentLabels ==
    [][\A i \in DOMAIN timers :
          (FireTrainingStart(i) /\ timers[i].mounted
             /\ timers[i].id \in IdsOf(tasks))
              => TaskOf(tasks', timers[i].id).total
                    = NumWithLabel(drawer.samples, "POSITIVE")
                      + NumWithLabel(drawer.samples, "NEGATIVE")]_vars

\* C9: for every labeling and every pair of thresholds canTrain is true exactly
\* when the positives reach the positive threshold AND the negatives reach the
\* negative threshold (5 positive / 0 negative with thresholds 3/2 gives false,
\* 3 / 1 gives false, 3 / 2 gives true).
C9_CanTrainIsAndGate ==
    drawer.open =>
        LET p  == NumWithLabel(drawer.samples, "POSITIVE")
            n  == NumWithLabel(drawer.samples, "NEGATIVE")
            pt == drawer.positive_threshold
            nt == drawer.negative_threshold
            ok == canTrain(drawer.samples, pt, nt)
        IN  /\ ok <=> (p >= pt /\ n >= nt)
            /\ (pt = 3 /\ nt = 2 /\ p = 5 /\ n = 0) => ~ok
            /\ (pt = 3 /\ nt = 2 /\ p = 3 /\ n = 1) => ~ok
            /\ (pt = 3 /\ nt = 2 /\ p = 3 /\ n = 2) => ok

\* Thresholds 3/2 with 3 positives and 2 negatives: the gate is open.
C9_Witness ==
    /\ drawer.open
    /\ drawer.positive_threshold = 3
    /\ drawer.negative_threshold = 2
    /\ NumWithLabel(drawer.samples, "POSITIVE") = 3
    /\ NumWithLabel(drawer.samples, "NEGATIVE") = 2
    /\ canTrain(drawer.samples, 3, 2)

\* C10 as stated: in any state where canTrain is true, label(sample, positive)
\* or label(sample, negative) applied to any sample leaves canTrain true.
C10_MonotonicAnySample ==
    [][\A id \in DOMAIN drawer.samples, label \in {"POSITIVE", "NEGATIVE"} :
          (/\ handleLabel(id, label)
           /\ canTrain(drawer.samples, drawer.positive_threshold,
                       drawer.negative_threshold))
              => canTrain(drawer'.samples, drawer'.positive_threshold,
                          drawer'.negative_threshold)]_vars

\* C10 amended: in any state where canTrain is true, label(sample, positive) or
\* label(sample, negative) applied to a sample that does not carry the other of
\* these two labels leaves canTrain true.
C10_MonotonicUnlessFlipped ==
    [][\A id \in DOMAIN drawer.samples, label \in {"POSITIVE", "NEGATIVE"} :
          (/\ handleLabel(id, label)
           /\ drawer.samples[id] \notin ({"POSITIVE", "NEGATIVE"} \ {label})
           /\ canTrain(drawer.samples, drawer.positive_threshold,
                       drawer.negative_threshold))
              => canTrain(drawer'.samples, drawer'.positive_threshold,
                          drawer'.negative_threshold)]_vars

\* The gate is open and one more sample than the threshold asks has been
\* labeled positive.
C10_Witness ==
    /\ drawer.open
    /\ canTrain(drawer.samples, drawer.positive_threshold,
                drawer.negative_threshold)
    /\ NumWithLabel(drawer.samples, "POSITIVE") > drawer.positive_threshold

\* C11: after any sequence of label operations the reported counts partition
\* the collection: unlabeled, positive and negative each equal the number of
\* samples carrying that label, ignored samples are counted in none of the
\* three, and unlabeled + positive + negative + ignored is the collection size.
C11_CountsPartition ==
    drawer.open =>
        LET s == stats(drawer.samples)
        IN  /\ s.unlabeled = NumWithLabel(drawer.samples, "UNLABELED")
            /\ s.positive = NumWithLabel(drawer.samples, "POSITIVE")
            /\ s.negative = NumWithLabel(drawer.samples, "NEGATIVE")
            /\ s.unlabeled + s.positive + s.negative
                   + NumWithLabel(drawer.samples, "IGNORED") = Len(drawer.samples)
            /\ Len(drawer.samples) = Len(generateMockSamples(GateSamples))

\* Every label is carried by some sample, an ignored one included.
C11_Witness ==
    /\ drawer.open
    /\ \A label \in LabelStatus : NumWithLabel(drawer.samples, label) > 0

\* C12: label(sampleId, label) changes only the label of the sample with that
\* id: every other sample, the order of the collection and the set of sample
\* ids are unchanged (no sample is removed, also when labeled ignored), and the
\* task list (statuses, thresholds) and the drawer's thresholds are untouched.
C12_LabelFrame ==
    [][\A id \in DOMAIN drawer.samples, label \in LabelButtons :
          handleLabel(id, label)
              => /\ DOMAIN drawer'.samples = DOMAIN drawer.samples
                 /\ drawer'.samples[id] = label
                 /\ \A j \in DOMAIN drawer.samples \ {id} :
                       drawer'.samples[j] = drawer.samples[j]
                 /\ tasks' = tasks
                 /\ drawer'.task = drawer.task
                 /\ drawer'.positive_threshold = drawer.positive_threshold
                 /\ drawer'.negative_threshold = drawer.negative_threshold
                 /\ drawer'.isTraining = drawer.isTraining]_vars

\* A sample labeled ignored is still in the collection, next to a labeled one.
C12_Witness ==
    /\ drawer.open
    /\ Len(drawer.samples) = GateSamples
    /\ \E i, j \in DOMAIN drawer.samples :
          /\ drawer.samples[i] = "IGNORED"
          /\ drawer.samples[j] = "POSITIVE"

\* Every point of a point list.
PointsOf(points) == {points[i] : i \in DOMAIN points}

\* s is an initial part of t.
IsPrefix(s, t) == Len(s) <= Len(t) /\ SubSeq(t, 1, Len(s)) = s

\* undoLast applied n times.
RECURSIVE UndoTimes(_, _)
UndoTimes(elements, n) ==
    IF n = 0 THEN elements ELSE UndoTimes(undoLast(elements), n - 1)

\* C13: a stroke made of one begin, k >= 1 extends and one end (all under one
\* draw mode, no clear in between) appends exactly one primitive and clears the
\* pending state; in curve/polygon mode its points are the begin point followed
\* by every extend point in order, in line/arrow mode they are the begin point
\* and the last extend point; its kind is the active draw mode.
C13_StrokeCommitsOnePrimitive ==
    [][(/\ handleMouseUp
        /\ Len(gesture.points) >= 2
        /\ ~gesture.cleared
        /\ gesture.modes = {drawMode})
          => /\ drawElements' =
                   Append(drawElements,
                          [type   |-> drawMode,
                           points |-> IF drawMode \in {"curve", "polygon"}
                                      THEN gesture.points
                                      ELSE <<gesture.points[1],
                                             gesture.points[Len(gesture.points)]>>])
             /\ currentDrawing' = <<>>
             /\ ~isDrawing']_vars

\* A stroke of a begin and two differing extends is about to end in line or
\* arrow mode: the pending list holds the begin point and the last extend.
C13_Witness ==
    /\ isDrawing
    /\ activeCameraObj
    /\ ~gesture.cleared
    /\ gesture.modes = {drawMode}
    /\ IsSegmentMode(drawMode)
    /\ Len(gesture.points) = 3
    /\ gesture.points[2] # gesture.points[3]
    /\ currentDrawing = <<gesture.points[1], gesture.points[3]>>

\* C14: a begin immediately followed by end (no extend), or an end with no
\* stroke active, creates no primitive, leaves the committed list unchanged,
\* raises no error and leaves no stroke pending.
C14_ShortStrokeDropped ==
    [][(/\ handleMouseUp
        /\ \/ ~isDrawing
           \/ (Len(gesture.points) = 1 /\ ~gesture.cleared))
          => /\ drawElements' = drawElements
             /\ ~isDrawing'
             /\ currentDrawing' = <<>>
             /\ ~renderThrows']_vars

\* Only the begin of a stroke has been reported, and an element is committed.
C14_Witness ==
    /\ isDrawing
    /\ Len(gesture.points) = 1
    /\ ~gesture.cleared
    /\ Len(drawElements) > 0
    /\ activeCameraObj

\* C15: undoLast removes exactly the most recently committed primitive and
\* leaves the earlier ones unchanged and in order; applied n times to n
\* committed primitives it empties the list, and on an empty list it is a no-op.
C15_UndoIsLifo ==
    /\ [][handleUndo
            => /\ Len(drawElements') = Len(drawElements) - 1
               /\ \A i \in DOMAIN drawElements' : drawElements'[i] = drawElements[i]]_vars
    /\ [](/\ UndoTimes(drawElements, Len(drawElements)) = <<>>
          /\ UndoTimes(drawElements, Len(drawElements) + 1) = <<>>
          /\ undoLast(<<>>) = <<>>)

\* Two differing elements are committed.
C15_Witness ==
    /\ Len(drawElements) = 2
    /\ drawElements[1] # drawElements[2]

\* C16: clear, from any state including one with a stroke in progress, leaves
\* the committed list empty and no stroke pending (drawing flag false, pending
\* list empty); a pointer-move that follows it without a new begin records no
\* point, and a following end commits nothing.
C16_ClearEndsStroke ==
    [][/\ handleClearAll
          => (drawElements' = <<>> /\ currentDrawing' = <<>> /\ ~isDrawing')
       /\ gesture.cleared
          => /\ \A e \in PointerPositions :
                   handleMouseMove(e) => currentDrawing' = <<>>
             /\ handleMouseUp => drawElements' = drawElements]_vars

\* C17: every point held in the pending stroke or in a committed primitive has
\* x and y inside [0,1], whatever position the begin or extend event reports.
C17_PointsInUnitSquare ==
    /\ \A p \in PointsOf(currentDrawing) : p # undefined /\ InUnitSquare(p)
    /\ \A i \in DOMAIN drawElements :
          \A p \in PointsOf(drawElements[i].points) :
              p # undefined /\ InUnitSquare(p)

\* C18: every committed primitive of kind line or arrow holds exactly 2 points,
\* whatever the interleaving of pointer events, draw-mode changes, undo and
\* clear; the kind recorded for a primitive is the kind under which its points
\* were collected.
C18_SegmentsHoldTwoPoints ==
    /\ [](\A i \in DOMAIN drawElements :
             IsSegmentMode(drawElements[i].type)
                 => Len(drawElements[i].points) = 2)
    /\ [][(handleMouseUp /\ strokeCommits(isDrawing, currentDrawing))
            => gesture.modes = {drawMode}]_vars

\* C19: selecting a camera, deselecting one (the previewed one, the last one)
\* and switching the active preview leave the committed list unchanged; the
\* committed list loses elements only through undo or clear.
C19_CamerasKeepDrawings ==
    [][/\ \A id \in Cameras :
             (clickCameraRow(id) \/ clickPreviewTab(id) \/ clickCameraCheckbox(id))
                 => drawElements' = drawElements
       /\ ~IsPrefix(drawElements, drawElements')
             => (handleUndo \/ handleClearAll)]_vars

\* Elements are committed and the last camera has been deselected.
C19_Witness ==
    /\ Len(drawElements) > 0
    /\ selectedCameras = <<>>
    /\ activeCameraId = null

\* C20: pointer-leave has exactly the effect of pointer-up in every state;
\* after either no stroke is pending (drawing flag false, pending list empty);
\* a leave that follows an up commits nothing more.
C20_LeaveIsUp ==
    [][/\ onMouseLeave <=> onMouseUp
       /\ (onMouseUp \/ onMouseLeave)
             => (~isDrawing' /\ currentDrawing' = <<>>)
       /\ (onMouseLeave /\ gesture = NoGesture)
             => drawElements' = drawElements]_vars

\* A stroke has been committed and none is pending.
C20_Witness ==
    /\ Len(drawElements) > 0
    /\ ~isDrawing
    /\ currentDrawing = <<>>
    /\ gesture = NoGesture
    /\ activeCameraObj

\* The finish button was pressed and onSave was called in this step.
Saves ==
    /\ \E confirmed \in BOOLEAN : handleFinish(confirmed)
    /\ Len(onSaveCalls') = Len(onSaveCalls) + 1

\* The draft onSave received in this step.
Saved == onSaveCalls'[Len(onSaveCalls')]

\* C21: the roi passed to onSave is the concatenation, in commit order, of the
\* full point lists of the primitives committed at the time of save, a pending
\* stroke excluded; for a single polygon drawn through 4 points the roi is
\* exactly those 4 points in that order.
C21_RoiIsCommittedPoints ==
    [][Saves =>
         /\ Len(Saved.roi) = SumPoints(drawElements)
         /\ \A k \in DOMAIN drawElements :
               \A j \in DOMAIN drawElements[k].points :
                  Saved.roi[SumPoints(SubSeq(drawElements, 1, k - 1)) + j]
                      = drawElements[k].points[j]
         /\ (/\ Len(drawElements) = 1
             /\ drawElements[1].type = "polygon"
             /\ Len(drawElements[1].points) = 4)
               => Saved.roi = drawElements[1].points]_vars

\* A draft has been saved whose roi holds four points, not all the same.
C21_Witness ==
    /\ Len(onSaveCalls) = 1
    /\ Len(onSaveCalls[1].roi) = 4
    /\ onSaveCalls[1].roi[1] # onSaveCalls[1].roi[2]

\* The 0-based indices of a list of n points that are even or last.
EvenOrLast(n) == {i \in 0 .. n - 1 : i % 2 = 0 \/ i = n - 1}

\* The point lists of the curves and polygons on display: the committed ones
\* and the pending one.
ShownPaths ==
    {drawElements[k].points : k \in {j \in DOMAIN drawElements :
                                        drawElements[j].type \in {"curve", "polygon"}}}
    \cup (IF drawMode \in {"curve", "polygon"} THEN {currentDrawing} ELSE {})

\* C22: for a curve or polygon with n >= 2 recorded points the displayed list
\* is exactly the points at even indices plus the final point, in original
\* order and none taken twice; it begins with the first recorded point and
\* ends with the last one; the stored list is untouched by it: a save persists
\* every recorded point.
C22_DisplayKeepsEvenAndLast ==
    /\ [](\A points \in ShownPaths : Len(points) >= 2 =>
            LET shown == simplified(points)
                kept  == EvenOrLast(Len(points))
            IN  /\ Len(shown) = Cardinality(kept)
                /\ \A k \in DOMAIN shown :
                      \E i \in kept :
                         /\ Cardinality({j \in kept : j < i}) = k - 1
                         /\ shown[k] = points[i + 1]
                /\ shown[1] = points[1]
                /\ shown[Len(shown)] = points[Len(points)])
    /\ [][Saves => Len(Saved.roi) = SumPoints(drawElements)]_vars

\* A polygon of four recorded points is committed; three of them are displayed.
C22_Witness ==
    \E k \in DOMAIN drawElements :
        /\ drawElements[k].type = "polygon"
        /\ Len(drawElements[k].points) = 4
        /\ Len(simplified(drawElements[k].points)) = 3

\* C23: every draft handed to onSave has a non-empty camera selection, one
\* preset algorithm taken from the preset catalog, and a task name that is
\* non-empty after trimming whitespace.
C23_SavedDraftIsValid ==
    \A i \in DOMAIN onSaveCalls :
        /\ Len(onSaveCalls[i].camera_ids) > 0
        /\ onSaveCalls[i].algorithm \in PRESET_ALGORITHMS
        /\ trim(onSaveCalls[i].name) # <<>>

\* A draft with a name the user typed has been saved.
C23_Witness ==
    /\ Len(onSaveCalls) = 1
    /\ onSaveCalls[1].name = <<"a">>
    /\ onSaveCalls[1].algorithm = "helmet"

\* C24: a finish that fails validation (no camera, no algorithm or a blank
\* name) does not invoke onSave, creates no task and leaves every field of the
\* draft unchanged; whenever the draft is valid, a confirmed finish saves it.
C24_FailedFinishKeepsDraft ==
    /\ [][((\E confirmed \in BOOLEAN : handleFinish(confirmed))
           /\ (\/ Len(selectedCameras) = 0
               \/ selectedAlgoId = null
               \/ trim(taskName) = <<>>))
          => UNCHANGED <<onSaveCalls, tasks, timers, isWizardOpen, selectedCameras,
                         drawElements, selectedAlgoId, taskName, duration,
                         alarmLevel, positiveThreshold, negativeThreshold>>]_vars
    /\ []((WizardMounted /\ draftValid)
          => ENABLED (handleFinish(TRUE) /\ Len(onSaveCalls') = Len(onSaveCalls) + 1))

\* A draft that fails on its blank name only, its settings already changed.
C24_Witness ==
    /\ WizardMounted
    /\ Len(selectedCameras) > 0
    /\ selectedAlgoId # null
    /\ taskName = <<" ">>
    /\ duration # 0
    /\ positiveThreshold # DefaultThreshold
    /\ onSaveCalls = <<>>

\* C25: in every wizard state the customization being enabled implies that a
\* preset algorithm is selected: the toggle is refused while no preset is
\* chosen, and a chosen preset is replaced but never deselected while the
\* wizard is open; a saved draft carries customization text only together with
\* a preset algorithm.
C25_CustomizationNeedsPreset ==
    /\ [](enableAiCustom => selectedAlgoId \in PRESET_ALGORITHMS)
    /\ [](\A i \in DOMAIN onSaveCalls :
             onSaveCalls[i].nlp_text # <<>>
                => onSaveCalls[i].algorithm \in PRESET_ALGORITHMS)
    /\ [][/\ (toggleAiCustom /\ selectedAlgoId = null)
                => enableAiCustom' = enableAiCustom
          /\ (selectedAlgoId # null /\ isWizardOpen')
                => selectedAlgoId' \in PRESET_ALGORITHMS]_vars

\* A draft with customization text has been saved.
C25_Witness ==
    /\ Len(onSaveCalls) = 1
    /\ onSaveCalls[1].nlp_text = <<(<<"a">>)>>
    /\ onSaveCalls[1].algorithm = "fire"

\* C26: auto-fill writes the task name only when the name field is the empty
\* string: a non-empty name, typed by the user or filled earlier, is changed by
\* nothing but the user's typing while the wizard is open, also when the
\* algorithm selection or the parse result changes afterwards; a name that
\* appears without typing is the one built from the selection.
C26_AutoFillOnlyWhenEmpty ==
    [][(isWizardOpen' /\ ~(\E text \in TextInputs : typeTaskName(text)))
         => /\ taskName # <<>> => taskName' = taskName
            /\ (taskName = <<>> /\ taskName' # <<>>)
                  => taskName' = baseName(selectedAlgoId', enableAiCustom', genAiResult')
                                   \o <<"_", "MMdd">>]_vars

\* The user's name stands although a preset is selected and a parse result is
\* stored with the customization enabled.
C26_Witness ==
    /\ WizardMounted
    /\ taskName = <<"a">>
    /\ selectedAlgoId = "helmet"
    /\ enableAiCustom
    /\ genAiResult # nullResult

\* A finish with the given answer to the confirmation would call onSave now.
WouldSave(confirmed) ==
    ENABLED (handleFinish(confirmed) /\ Len(onSaveCalls') = Len(onSaveCalls) + 1)

\* C27: a finish on an otherwise valid draft with no committed primitive calls
\* onSave only if the user confirms the full-frame default; declined, onSave is
\* not called and the draft is unchanged.  With a committed primitive no
\* confirmation is asked: the finish saves whatever the answer would be.
C27_EmptyRoiNeedsConfirmation ==
    /\ []((WizardMounted /\ draftValid) =>
            IF Len(drawElements) = 0
            THEN WouldSave(TRUE) /\ ~WouldSave(FALSE)
            ELSE WouldSave(TRUE) /\ WouldSave(FALSE))
    /\ [][(handleFinish(FALSE) /\ Len(drawElements) = 0) => UNCHANGED vars]_vars

\* A confirmed draft without region has been saved.
C27_Witness ==
    /\ Len(onSaveCalls) = 1
    /\ onSaveCalls[1].roi = <<>>
    /\ ~isWizardOpen

\* C28: every task created from a successful wizard completion enters the task
\* list, on top, with status INIT, observed total 0, and the positive and
\* negative thresholds the wizard holds at finish.
C28_CreatedTaskSeeded ==
    [][Saves =>
         /\ Len(tasks') = Len(tasks) + 1
         /\ SubSeq(tasks', 2, Len(tasks')) = tasks
         /\ tasks'[1].status = "INIT"
         /\ tasks'[1].total = 0
         /\ tasks'[1].positive_threshold = positiveThreshold
         /\ tasks'[1].negative_threshold = negativeThreshold]_vars

\* A task has been created from a wizard whose thresholds the user had set to
\* 5 and to 1.
C28_Witness ==
    /\ Len(onSaveCalls) = 1
    /\ tasks[1].status = "INIT"
    /\ tasks[1].total = 0
    /\ tasks[1].positive_threshold = 5
    /\ tasks[1].negative_threshold = 1

\* C29: onSave is invoked once on a successful finish and by nothing else,
\* not by a failed finish and not by closing the wizard; the successful finish
\* closes the wizard, and a closed wizard saves nothing, so one wizard session
\* creates at most one task and schedules at most one provisioning callback.
C29_OneSavePerSession ==
    /\ [](/\ Len(onSaveCalls) <= 1
          /\ Len(tasks) = Len(MOCK_TASKS) + Len(onSaveCalls)
          /\ Len(timers) = Len(onSaveCalls)
          /\ ~isWizardOpen => (~WouldSave(TRUE) /\ ~WouldSave(FALSE)))
    /\ [][/\ onSaveCalls' # onSaveCalls
                => (Saves /\ draftValid /\ onSaveCalls' = Append(onSaveCalls, draft))
          /\ Saves => (isWizardOpen /\ ~isWizardOpen')
          /\ (tasks' # tasks \/ timers' # timers) => Saves
          /\ CloseWizard => UNCHANGED <<onSaveCalls, tasks, timers>>]_vars

\* The session has ended with one save: one more task, one provisioning
\* callback scheduled, the wizard closed.
C29_Witness ==
    /\ Len(onSaveCalls) = 1
    /\ ~isWizardOpen
    /\ Len(tasks) = Len(MOCK_TASKS) + 1
    /\ Len(timers) = 1
    /\ timers[1].kind = "provision"
    /\ timers[1].id = tasks[1].id

\* The awaited parse call settles with the given outcome in this step, the
\* wizard still being mounted.
Settles(outcome) == WizardMounted /\ handleParseSettles(outcome)

\* C30: when the rule-parsing call fails (the service's fallback after a failed
\* request, an unreadable answer) or returns valid = false, the wizard ends in
\* the same kind of state: no parse result is stored, an error reason is set
\* (the collaborator's reason or a generic one), the parsing flag is cleared,
\* and duration and alarm level are unchanged; duration and alarm level are
\* overwritten by suggestions only on a valid = true result.
C30_FailedParseLeavesSettings ==
    [][/\ parseCall # NoCall =>
            \A outcome \in ParseOutcomes(parseCall.userInput) :
               Settles(outcome) =>
                  /\ ~isParsing'
                  /\ IF outcome.kind = "result" /\ outcome.valid
                     THEN /\ genAiResult' = outcome
                          /\ genAiError' = null
                          /\ duration' = outcome.suggested_duration
                          /\ alarmLevel' = outcome.suggested_level
                     ELSE /\ genAiResult' = nullResult
                          /\ genAiError' \in
                                {"API Error or Timeout", AmbiguousMessage, ApiFailedMessage}
                          /\ (outcome.kind = "result" /\ outcome.reason # "undefined")
                                => genAiError' = outcome.reason
                          /\ duration' = duration
                          /\ alarmLevel' = alarmLevel
       /\ (/\ isWizardOpen'
           /\ duration' # duration \/ alarmLevel' # alarmLevel
           /\ ~(\E n \in NumberInputs : typeDuration(n))
           /\ ~(\E lvl \in AlarmLevel : clickAlarmLevel(lvl)))
             => /\ parseCall # NoCall
                /\ genAiResult' # nullResult
                /\ genAiResult'.valid
                /\ handleParseSettles(genAiResult')]_vars

\* A parse has failed with the service's reason; the duration and the alarm
\* level the user had set stand.
C30_Witness ==
    /\ WizardMounted
    /\ parseCall = NoCall
    /\ genAiError = "API Error or Timeout"
    /\ genAiResult = nullResult
    /\ ~isParsing
    /\ duration = 5
    /\ alarmLevel = "LOW"

\* C31: a RUNNING task is taken to STOPPED by stop and a STOPPED task back to
\* RUNNING by start; whenever the task rows take input the command for the
\* task's status is there, so the pair can be repeated without end; each such
\* command changes only the status field of that task.
C31_StopStartReversible ==
    /\ [](NoOverlay =>
            \A i \in DOMAIN tasks :
               /\ tasks[i].status = "RUNNING" => ENABLED StopTask(i)
               /\ tasks[i].status = "STOPPED" => ENABLED StartTask(i))
    /\ [][\A i \in DOMAIN tasks :
             /\ (StopTask(i) /\ tasks[i].status = "RUNNING")
                   => /\ tasks' = [tasks EXCEPT ![i].status = "STOPPED"]
                      /\ UNCHANGED <<isWizardOpen, drawer, timers>>
             /\ (StartTask(i) /\ tasks[i].status = "STOPPED")
                   => /\ tasks' = [tasks EXCEPT ![i].status = "RUNNING"]
                      /\ UNCHANGED <<isWizardOpen, drawer, timers>>]_vars

\* The mock task that was RUNNING has been stopped and the one that was
\* STOPPED has been started; the observed totals are as they were.
C31_Witness ==
    /\ StatusOf(tasks, 1) = "STOPPED"
    /\ StatusOf(tasks, 2) = "RUNNING"
    /\ TaskOf(tasks, 1).total = MOCK_TASKS[1].total
    /\ TaskOf(tasks, 2).total = MOCK_TASKS[2].total

\* C32: no reachable state has a task with status ERROR: no user command and
\* no scheduled callback writes ERROR.
C32_NoErrorStatus ==
    \A i \in DOMAIN tasks : tasks[i].status \in TaskStatus \ {"ERROR"}

\* Creation, provisioning, stop and training start have all happened: a
\* created task is STOPPED while a mock task is TRAINING.
C32_Witness ==
    /\ \E id \in CreatedIds : StatusOf(tasks, id) = "STOPPED"
    /\ \E id \in 1 .. Len(MOCK_TASKS) : StatusOf(tasks, id) = "TRAINING"

\* The point lists of the arrows on display: the committed ones and the
\* pending one once it holds two points.
ShownArrows ==
    {drawElements[k].points :
        k \in {j \in DOMAIN drawElements : drawElements[j].type = "arrow"}}
    \cup (IF drawMode = "arrow" /\ Len(currentDrawing) >= 2
          THEN {currentDrawing} ELSE {})

NumZero == <<0, 0, 0, 0>>

\* C33: for an arrow from S to E both head points lie at the head length (2
\* overlay units) from E, and E seen from them lies at -30 and +30 degrees off
\* the shaft direction atan2(E.y - S.y, E.x - S.x); for a horizontal arrow
\* pointing right their y-coordinates differ from the y of E by opposite
\* amounts.  (Stated for shafts along multiples of 45 degrees, in exact
\* arithmetic: with u the unit vector of the shaft direction and v the vector
\* from a head point to E, |v|^2 = 4, u.v = sqrt(3) and u x v = -1 or +1.)
C33_ArrowHeadGeometry ==
    \A points \in ShownArrows :
        LET S  == points[1]
            E  == points[Len(points)]
            dx == E.x - S.x
            dy == E.y - S.y
            u  == [x |-> cos(atan2(dy, dx)), y |-> sin(atan2(dy, dx))]
            h  == arrowHeads(points)
            v1 == [x |-> NumSub(Num(E.x), h.arrow1.x), y |-> NumSub(Num(E.y), h.arrow1.y)]
            v2 == [x |-> NumSub(Num(E.x), h.arrow2.x), y |-> NumSub(Num(E.y), h.arrow2.y)]
            Dot(a, b)   == NumAdd(NumMul(a.x, b.x), NumMul(a.y, b.y))
            Cross(a, b) == NumSub(NumMul(a.x, b.y), NumMul(a.y, b.x))
            along == NumAdd(NumScale(dx, u.x), NumScale(dy, u.y))
        IN  /\ NumSub(NumScale(dx, u.y), NumScale(dy, u.x)) = NumZero
            /\ \A k \in 1 .. 4 : along[k] >= 0
            /\ (dx # 0 \/ dy # 0) => along # NumZero
            /\ Dot(v1, v1) = <<16 * 4, 0, 0, 0>>
            /\ Dot(v2, v2) = <<16 * 4, 0, 0, 0>>
            /\ Dot(u, v1) = <<0, 0, 16, 0>>
            /\ Dot(u, v2) = <<0, 0, 16, 0>>
            /\ Cross(u, v1) = <<-16, 0, 0, 0>>
            /\ Cross(u, v2) = <<16, 0, 0, 0>>
            /\ (dy = 0 /\ dx > 0)
                  => /\ NumSub(h.arrow1.y, Num(E.y)) = <<4, 0, 0, 0>>
                     /\ NumSub(h.arrow2.y, Num(E.y)) = <<-4, 0, 0, 0>>

\* A horizontal arrow pointing right and a diagonal arrow are committed.
C33_Witness ==
    /\ \E k \in DOMAIN drawElements :
          /\ drawElements[k].type = "arrow"
          /\ drawElements[k].points = <<[x |-> 0, y |-> 0], [x |-> 100, y |-> 0]>>
    /\ \E k \in DOMAIN drawElements :
          /\ drawElements[k].type = "arrow"
          /\ drawElements[k].points = <<[x |-> 100, y |-> 0], [x |-> 0, y |-> 100]>>

\* C34: the provisioning callback performs only the INIT -> RUNNING
\* transition: when it fires for a task whose status is no longer INIT, the
\* status is left unchanged.
C34_ProvisioningOnlyFromInit ==
    [][\A i \in DOMAIN timers :
          (FireProvisioning(i) /\ StatusOf(tasks, timers[i].id) # "INIT")
              => StatusOf(tasks', timers[i].id) = StatusOf(tasks, timers[i].id)]_vars

\* C35: at the moment a task's status is written TRAINING the gate holds for
\* the labels of that drawer session: the positives reach the positive
\* threshold and the negatives the negative threshold, also when samples were
\* relabeled between the confirmed start and the delayed write.
C35_GateHoldsAtTrainingWrite ==
    [][\A i \in DOMAIN timers :
          (FireTrainingStart(i) /\ timers[i].mounted
             /\ StatusOf(tasks', timers[i].id) = "TRAINING")
              => /\ NumWithLabel(drawer.samples, "POSITIVE") >= drawer.positive_threshold
                 /\ NumWithLabel(drawer.samples, "NEGATIVE") >= drawer.negative_threshold]_vars

\* Callbacks scheduled from the drawer session that is open now.
MountedTraining == {i \in PendingTraining(timers) : timers[i].mounted}

\* C36: within one drawer session at most one training-start callback is
\* scheduled: a confirmed start turns the session to isTraining, which lasts as
\* long as the session and keeps the start action disabled, so the session's
\* callback, which writes the TRAINING status and the sample total and ends
\* the session, runs at most once; a declined confirmation schedules nothing
\* and changes no state.
C36_OneTrainingStartPerSession ==
    /\ [](/\ Cardinality(MountedTraining) <= 1
          /\ drawer.open =>
                /\ drawer.isTraining <=> MountedTraining # {}
                /\ drawer.isTraining => ~startButtonEnabled(drawer)
          /\ ~drawer.open => MountedTraining = {})
    /\ [][/\ (drawer.open /\ drawer.isTraining /\ drawer'.open)
                => (drawer'.isTraining /\ drawer'.task = drawer.task)
          /\ Cardinality(PendingTraining(timers')) > Cardinality(PendingTraining(timers))
                => (handleStartTraining(TRUE) /\ ~drawer.isTraining
                      /\ Len(timers') = Len(timers) + 1)
          /\ handleStartTraining(FALSE) => UNCHANGED vars
          /\ \A i \in MountedTraining :
                FireTrainingStart(i) => (~drawer'.open /\ timers' = RemoveAt(timers, i))]_vars

\* A confirmed start is pending in a session whose labels still meet both
\* thresholds: the start action is disabled by isTraining alone.
C36_Witness ==
    /\ drawer.open
    /\ drawer.isTraining
    /\ canTrain(drawer.samples, drawer.positive_threshold, drawer.negative_threshold)
    /\ Cardinality(MountedTraining) = 1

\* C37: the training-start callback scheduled from task A's drawer affects
\* only task A and A's own drawer: when A's drawer was closed and the drawer
\* of another task B was opened before the callback fires, B's drawer stays
\* open and B's status and sample total are unchanged.
C37_CallbackLeavesOtherDrawer ==
    [][\A i \in DOMAIN timers :
          (/\ FireTrainingStart(i)
           /\ ~timers[i].mounted
           /\ drawer.open
           /\ drawer.task # timers[i].id)
              => /\ drawer' = drawer
                 /\ \A k \in DOMAIN tasks :
                       tasks[k].id = drawer.task => tasks'[k] = tasks[k]]_vars

\* The position of task id in list ts.
PositionOf(ts, id) == CHOOSE i \in DOMAIN ts : ts[i].id = id

\* List after keeps every task of list before whose id differs from X as it
\* was, adds none, and keeps the remaining tasks in their order.
OthersKept(before, after, X) ==
    /\ IdsOf(before) \ {X} \subseteq IdsOf(after)
    /\ IdsOf(after) \subseteq IdsOf(before)
    /\ Len(after) = Cardinality(IdsOf(after))
    /\ \A id \in IdsOf(after) \ {X} : TaskOf(after, id) = TaskOf(before, id)
    /\ \A i, j \in DOMAIN after :
          i < j => PositionOf(before, after[i].id) < PositionOf(before, after[j].id)

\* C38: a status update, a sample-total update, a delete or a provisioning
\* callback addressed to task id X leaves every task whose id differs from X
\* unchanged and keeps the relative order of the remaining tasks; a status
\* update changes only the status field and a sample-total update only the
\* total field of task X.
C38_UpdatesTouchOneTask ==
    /\ [](\A X \in TaskIds :
            /\ \A status \in TaskStatus :
                  LET after == updateTaskStatus(tasks, X, status)
                  IN  /\ OthersKept(tasks, after, X)
                      /\ X \in IdsOf(tasks) =>
                            TaskOf(after, X) = [TaskOf(tasks, X) EXCEPT !.status = status]
            /\ \A count \in 0 .. NumSamples :
                  LET after == updateTaskSampleCount(tasks, X, count)
                  IN  /\ OthersKept(tasks, after, X)
                      /\ X \in IdsOf(tasks) =>
                            TaskOf(after, X) = [TaskOf(tasks, X) EXCEPT !.total = count]
            /\ OthersKept(tasks, deleteTask(tasks, X), X)
            /\ X \notin IdsOf(deleteTask(tasks, X))
            /\ OthersKept(tasks, provisioningCallback(tasks, X), X))
    /\ [][/\ \A i \in DOMAIN tasks :
                (StopTask(i) \/ StartTask(i) \/ handleDeleteTask(i, TRUE))
                    => OthersKept(tasks, tasks', tasks[i].id)
          /\ \A i \in DOMAIN timers :
                (FireProvisioning(i) \/ FireTrainingStart(i))
                    => /\ OthersKept(tasks, tasks', timers[i].id)
                       /\ IdsOf(tasks') = IdsOf(tasks)]_vars

\* Of three listed tasks the middle one has been deleted and the last one
\* written TRAINING with a new total; the first is as it was created.
C38_Witness ==
    /\ Len(tasks) = 2
    /\ tasks[1].id \in CreatedIds
    /\ tasks[1].status = "INIT"
    /\ tasks[2].id = 2
    /\ tasks[2].status = "TRAINING"
    /\ tasks[2].total # MOCK_TASKS[2].total

(* C39: in every drawer session, for each class the "threshold met" mark
   (progress = min(100, round(count / threshold * 100)) >= 100) is rendered
   exactly when the count of the class has reached its threshold, and both
   marks are rendered exactly when canTrain holds and the start button is
   enabled. *)
C39_IndicatorMatchesGate ==
    drawer.open =>
        /\ positiveMet(drawer)
              <=> stats(drawer.samples).positive >= drawer.positive_threshold
        /\ negativeMet(drawer)
              <=> stats(drawer.samples).negative >= drawer.negative_threshold
        /\ (positiveMet(drawer) /\ negativeMet(drawer))
              <=> /\ canTrain(drawer.samples, drawer.positive_threshold,
                              drawer.negative_threshold)
                  /\ startButtonEnabled(drawer)

====
